---------------------------- MODULE Spec2Model ----------------------------
(* A model of the chat backend: the Conversation / Message / Feedback     *)
(* store, the HTTP handlers of chat/views.py acting on it statement by    *)
(* statement (so that concurrent requests interleave between database     *)
(* statements), direct model-level operations as the test-suite uses      *)
(* them, and the quality score of chat/utils.py.                          *)
EXTENDS Integers, Sequences, FiniteSets

(* ------------------------------ bounds -------------------------------- *)
\* Each specification bounds the primary keys ever handed out (conversations,
\* messages, feedback rows) and the number of direct model-level operations
\* of one behaviour.
\* The API, one request at a time.
MaxConvs == 2
MaxMsgs == 4
MaxFb == 2
\* Two workers on one conversation.
ConcMsgs == 4
ConcFb == 2
ConcOrmOps == 1
\* One worker and direct model-level operations on one conversation.
OrmMsgs == 3
OrmFb == 1
OrmOps == 2
\* The insights report, one request at a time: over two conversations, and
\* over one longer conversation.
InsMsgs == 4
InsFb == 2
InsOneMsgs == 6
InsOneFb == 3
\* One insights request interleaved with one worker on one conversation.
InsConcMsgs == 2
InsConcFb == 1
\* Theme extraction: pieces of text in the notes of one call, and the
\* largest top_n.
MaxPieces == 3
MaxTopN == 2
\* Longest response text the generator's client returns.
MaxReplyLen == 3
\* Longest value of a query parameter.
MaxParamLen == 3
\* Messages of the conversation whose history grows past the limit.
HistMsgs == 12
\* Messages and direct creations where messages are listed.
ListMsgs == 3
ListOrmOps == 3
\* Messages of the conversation a client polls.
PollMsgs == 6
\* Messages and feedback rows where requests are rejected.
ErrMsgs == 3
ErrFb == 1

(* ----------------------------- constants ------------------------------ *)
\* Python's None / SQL NULL.
None == "None"
ROLE_USER == "user"
ROLE_AI == "ai"
\* The concurrent request handlers (worker threads of the web server).
Procs == {"w1", "w2"}
WorkerRank == [p \in Procs |-> IF p = "w1" THEN 1 ELSE 2]
\* Message texts a client posts, as sequences of characters.
Texts == {<<"h", "i">>}
\* The text of the generated reply.
ReplyText == <<"o", "k">>
\* A null title: a one-element sequence that is no text (texts are sequences
\* of single characters), so that titles stay comparable with each other.
NoTitle == <<None>>
\* A field or parameter absent from the request (again no text).
Missing == <<None>>
\* A null note (again no text).
NoNote == <<None>>
\* Length of the auto-generated title prefix.
TitleLimit == 50
\* max_length of a message text and of a title.
TextMaxLength == 1000
TitleMaxLength == 200
\* max_length of a feedback note.
NoteMaxLength == 1000
\* Entries of conversations_with_scores a response lists.
ListedLimit == 20
\* The note of a feedback payload: absent or null, blank, a text, and a
\* text to trim.
PayloadNotes == {Missing, <<>>, <<"s", "l", "o", "w">>,
                 <<" ", "s", "l", "o", "w", "\r", "\n">>}
\* Number of messages handed to the generator as history.
HistoryLimit == 10
\* Weights of the quality score, in percent.
PositiveWeight == 70
RateWeight == 30
\* calculate_quality_score's None ("no score"), kept an integer so that scores
\* stay comparable.
NoScore == -1

\* The texts posted there: they differ, and one is trimmed by validation.
HistTexts == {<<"h", "i">>, <<" ", "y", "o", " ">>}

VARIABLES
    conversations,  \* set of rows [id, title]
    messages,       \* set of rows [id, conv, role, seq, text]
    feedback,       \* set of rows [id, message, rating, note]
    nextConvId,     \* auto-increment primary keys
    nextMsgId,
    nextFbId,
    req,            \* per worker: the request it is handling and its locals
    resp,           \* the response (or raised error) produced by the last step
    cap,            \* the bounds of the behaviour (never changed)
    ormOps,         \* number of direct model-level operations performed
    plain,          \* history: conversations whose messages were all created
                    \* with an auto-assigned sequence and never deleted
    th,             \* a call of extract_feedback_themes: its arguments and,
                    \* once it has returned, its result
    ins,            \* the insights request: its locals and its report
    gm,             \* a call of generate_reply: its environment and outcome
    pq,             \* a call of parse_int_query_param: arguments and result
    lst             \* the last message listing and the polling client

vars == <<conversations, messages, feedback, nextConvId, nextMsgId, nextFbId,
          req, resp, cap, ormOps, plain, th, ins, gm, pq, lst>>

\* The web application's state.
web == <<conversations, messages, feedback, nextConvId, nextMsgId, nextFbId,
         req, resp, ormOps, plain>>

store == <<conversations, messages, feedback>>

\* The calls of the pure functions.
pure == <<th, gm, pq>>

(* ------------------------------ helpers ------------------------------- *)
Idle == [pc |-> "idle", conv |-> 0, msg |-> 0, seq |-> 0, title |-> NoTitle,
         text |-> <<>>, rating |-> FALSE, note |-> Missing, fb |-> 0,
         fbnote |-> NoNote, history |-> <<>>]

NoResp == [op |-> "none", status |-> "", score |-> NoScore]

Response(op, status) == [op |-> op, status |-> status, score |-> NoScore]

ConvExists(c) == \E cv \in conversations : cv.id = c

MsgExists(m) == \E ms \in messages : ms.id = m

ConvMessages(c) == {ms \in messages : ms.conv = c}

TheMessage(m) == CHOOSE ms \in messages : ms.id = m

TheConversation(c) == CHOOSE cv \in conversations : cv.id = c

FeedbackOf(m) == {f \in feedback : f.message = m}

RECURSIVE SumOver(_, _)
SumOver(S, need) ==
    IF S = {} THEN 0
    ELSE LET p == CHOOSE x \in S : TRUE
         IN need[p] + SumOver(S \ {p}, need)

\* Message ids the requests in flight may still consume.
MsgNeed == [p \in Procs |->
              CASE req[p].pc \in {"post_count", "post_user"} -> 2
                [] req[p].pc \in {"post_history", "post_gen", "post_ai"} -> 1
                [] OTHER -> 0]

\* Requests are handed to the first free worker: which worker runs a request
\* changes nothing the store or the client sees.
CanStart(p) ==
    /\ req[p].pc = "idle"
    /\ \A q \in Procs : (q # p /\ req[q].pc = "idle") => WorkerRank[p] < WorkerRank[q]

\* Feedback ids the requests in flight may still consume.
FbNeed == [p \in Procs |->
             IF \/ req[p].pc = "fb_create"
                \/ req[p].pc = "fb_get"
                   /\ ~\E f \in feedback : f.message = req[p].msg
             THEN 1 ELSE 0]

MsgIdsFree(n) == (nextMsgId - 1) + SumOver(Procs, MsgNeed) + n <= cap.msgs

FbIdsFree(n) == (nextFbId - 1) + SumOver(Procs, FbNeed) + n <= cap.fbs

\* The ids requests and operations are addressed to.
ConvIds == 1..cap.convs
MsgIds == 1..cap.msgs
\* Explicit sequence values a direct creation may supply.
Seqs == 1..cap.msgs

(* ----------------------- Message persistence -------------------------- *)
NextSequenceNoIncrement(c) == Cardinality(ConvMessages(c))

NextSequenceGlobal(c) == 1 + Cardinality(messages)

\* Message.save(): a message created without a sequence gets
\* 1 + (number of messages now in its conversation).
NextSequence(c) == 1 + Cardinality(ConvMessages(c))

SequenceNeverTaken(c, s) == FALSE

\* unique_together (conversation, sequence).
SequenceTaken(c, s) == \E ms \in messages : ms.conv = c /\ ms.seq = s

\* The INSERT of a message row succeeds when its conversation exists
\* (foreign key) and the (conversation, sequence) pair is free.
MessageInsertOk(c, s) == ConvExists(c) /\ ~SequenceTaken(c, s)

NewMessage(c, role, s, text) ==
    [id |-> nextMsgId, conv |-> c, role |-> role, seq |-> s, text |-> text]

(* ------------------------------ titles -------------------------------- *)
\* The characters str.strip() removes, among the code points below 256 (the
\* characters a text of the model is made of): tab, line feed, vertical tab,
\* form feed, carriage return, the four information separators, the space,
\* the next-line control and the no-break space.
IsSpace(ch) ==
    ch \in {"\t", "\n", "", "\f", "\r", "",
            "", "", "", " ", "", " "}

RECURSIVE LStrip(_)
LStrip(s) == IF s # <<>> /\ IsSpace(Head(s)) THEN LStrip(Tail(s)) ELSE s

RECURSIVE RStrip(_)
RStrip(s) ==
    IF s # <<>> /\ IsSpace(s[Len(s)]) THEN RStrip(SubSeq(s, 1, Len(s) - 1))
    ELSE s

Strip(s) == RStrip(LStrip(s))

\* text[:50].strip(), plus "..." when the text is longer than 50.
AutoTitle(text) ==
    LET head == Strip(SubSeq(text, 1, IF Len(text) < TitleLimit
                                      THEN Len(text) ELSE TitleLimit))
    IN IF Len(text) > TitleLimit THEN head \o <<".", ".", ".">> ELSE head

\* Python truthiness of a title: None and the empty string are false.
Falsy(t) == t = NoTitle \/ t = <<>>

(* --------------------------- quality score ---------------------------- *)
\* conversation.messages.filter(role=ROLE_AI)
AiMessages(c) == {ms \in ConvMessages(c) : ms.role = ROLE_AI}

TotalAI(c) == Cardinality(AiMessages(c))

AiFeedbackAll(c) ==
    {f \in feedback : \E ms \in ConvMessages(c) : ms.id = f.message}

\* Feedback.objects.filter(message__in=ai_messages)
AiFeedback(c) == {f \in feedback : \E ms \in AiMessages(c) : ms.id = f.message}

FeedbackCount(c) == Cardinality(AiFeedback(c))

PositiveCount(c) == Cardinality({f \in AiFeedback(c) : f.rating})

\* n / d rounded to the nearest integer, ties to even (Python's round).
RoundDiv(n, d) ==
    LET q == n \div d
        r == n % d
    IN IF 2 * r < d THEN q
       ELSE IF 2 * r > d THEN q + 1
       ELSE IF q % 2 = 0 THEN q ELSE q + 1

\* round(x, 2), in hundredths, of the double x that a Python expression
\* yields.  expr is the expression: [op |-> "/", a |-> n, b |-> d] is the
\* true division n / d of two integers (0 <= n, 0 < d, both at most 2^30)
\* and also the literal whose decimal value is n/d (0.7 is 7/10, 100 is
\* 100/1): either is the double nearest to the quotient; "*" and "+" are
\* the product and the sum of two doubles, each rounded to the nearest
\* double, ties to the even mantissa.  A double is kept as its 53-bit
\* mantissa m and its exponent e, m * 2^e; the mantissa and every other
\* long number is a sequence of 14-bit limbs, the least significant first
\* (empty for 0).  round(x, 2) is the exact value of x rounded to the
\* nearest hundredth, ties to even.
RoundFloat(expr) ==
    LET Precision == 53
        LimbBits == 14
        Base == 2^LimbBits
        \* limbs of n/d kept by a division: enough bits for any quotient
        FracLimbs == 7
        Zero == [m |-> <<>>, e |-> 0]
        At(a, i) == IF i >= 1 /\ i <= Len(a) THEN a[i] ELSE 0
        RECURSIVE Limbs(_)
        Limbs(n) == IF n = 0 THEN <<>> ELSE <<n % Base>> \o Limbs(n \div Base)
        RECURSIVE Value(_)
        Value(a) == IF a = <<>> THEN 0 ELSE a[1] + Base * Value(Tail(a))
        RECURSIVE Trim(_)
        Trim(a) == IF a # <<>> /\ a[Len(a)] = 0
                   THEN Trim(SubSeq(a, 1, Len(a) - 1)) ELSE a
        \* carries taken through the digits c, the digit i first
        RECURSIVE Carried(_, _, _)
        Carried(c, i, carry) ==
            IF i > Len(c) THEN Limbs(carry)
            ELSE <<(c[i] + carry) % Base>>
                     \o Carried(c, i + 1, (c[i] + carry) \div Base)
        Plus(a, b) ==
            Carried([j \in 1..(IF Len(a) > Len(b) THEN Len(a) ELSE Len(b)) |->
                        At(a, j) + At(b, j)], 1, 0)
        \* a of at most 4 limbs
        Times(a, b) ==
            Trim(Carried([j \in 1..(Len(a) + Len(b)) |->
                             At(a, 1) * At(b, j) + At(a, 2) * At(b, j - 1)
                             + At(a, 3) * At(b, j - 2) + At(a, 4) * At(b, j - 3)],
                         1, 0))
        \* number of bits of a (trimmed)
        BitLen(a) ==
            IF a = <<>> THEN 0
            ELSE LimbBits * (Len(a) - 1)
                 + Cardinality({i \in 0..(LimbBits - 1) : 2^i <= a[Len(a)]})
        \* a * 2^k and a \div 2^k
        ShiftLeft(a, k) ==
            LET q == k \div LimbBits
                r == k % LimbBits
            IN Trim([j \in 1..(Len(a) + q + 1) |->
                        (At(a, j - q) % 2^(LimbBits - r)) * 2^r
                        + At(a, j - q - 1) \div 2^(LimbBits - r)])
        ShiftRight(a, k) ==
            LET q == k \div LimbBits
                r == k % LimbBits
            IN Trim([j \in 1..(Len(a) - q) |->
                        At(a, j + q) \div 2^r
                        + (At(a, j + q + 1) % 2^r) * 2^(LimbBits - r)])
        \* a % 2^k is not 0
        Low(a, k) ==
            \/ \E j \in 1..(k \div LimbBits) : At(a, j) # 0
            \/ At(a, k \div LimbBits + 1) % 2^(k % LimbBits) # 0
        \* r * 2^e with r of Precision bits, or of one more after a carry
        Carry(r, e) ==
            IF BitLen(r) > Precision
            THEN [m |-> ShiftRight(r, 1), e |-> e + 1]
            ELSE [m |-> r, e |-> e]
        \* a has k bits more than Precision and keep is a \div 2^k: the
        \* bits dropped round to the nearest, a half to the even mantissa
        Kept(a, k, e, sticky, keep) ==
            Carry(IF /\ Low(ShiftRight(a, k - 1), 1)
                     /\ (sticky \/ Low(a, k - 1) \/ keep[1] % 2 = 1)
                  THEN Plus(keep, <<1>>) ELSE keep,
                  e + k)
        Fit(a, k, e, sticky) ==
            IF k <= 0 THEN [m |-> ShiftLeft(a, -k), e |-> e + k]
            ELSE Kept(a, k, e, sticky, ShiftRight(a, k))
        \* the double nearest to a * 2^e (to a little more when sticky)
        Nearest(a, e, sticky) ==
            IF Trim(a) = <<>> THEN Zero
            ELSE Fit(Trim(a), BitLen(Trim(a)) - Precision, e, sticky)
        \* the next k binary digits of r / d (r < d), as a number, and what
        \* is left of r / d after them
        RECURSIVE Digits(_, _, _, _)
        Digits(r, d, k, acc) ==
            IF k = 0 THEN <<acc, r>>
            ELSE IF 2 * r >= d THEN Digits(2 * r - d, d, k - 1, 2 * acc + 1)
            ELSE Digits(2 * r, d, k - 1, 2 * acc)
        \* the next k limbs of r / d and what is left after them
        RECURSIVE Frac(_, _, _)
        Frac(r, d, k) ==
            IF k = 0 THEN [limbs |-> <<>>, rest |-> r]
            ELSE LET x == Digits(r, d, LimbBits, 0)
                     y == Frac(x[2], d, k - 1)
                 IN [limbs |-> y.limbs \o <<x[1]>>, rest |-> y.rest]
        Div(n, d) ==
            LET f == Frac(n % d, d, FracLimbs)
            IN Nearest(f.limbs \o Limbs(n \div d), -(LimbBits * FracLimbs),
                       f.rest # 0)
        Mul(x, y) ==
            IF x = Zero \/ y = Zero THEN Zero
            ELSE Nearest(Times(x.m, y.m), x.e + y.e, FALSE)
        \* x.e >= y.e: beyond Precision + 2 binary places y is lost in x
        AddTo(x, y) ==
            IF x.e - y.e > Precision + 2 THEN x
            ELSE Nearest(Plus(ShiftLeft(x.m, x.e - y.e), y.m), y.e, FALSE)
        Add(x, y) ==
            IF x = Zero THEN y
            ELSE IF y = Zero THEN x
            ELSE IF x.e >= y.e THEN AddTo(x, y) ELSE AddTo(y, x)
        RECURSIVE Eval(_)
        Eval(x) ==
            CASE x.op = "/" -> Div(x.a, x.b)
              [] x.op = "*" -> Mul(Eval(x.a), Eval(x.b))
              [] x.op = "+" -> Add(Eval(x.a), Eval(x.b))
        \* p * 2^e (e < 0) to the nearest integer, a half to the even one;
        \* h is its integer part
        Halves(p, e, h) ==
            IF Low(ShiftRight(p, -e - 1), 1) /\ (Low(p, -e - 1) \/ h % 2 = 1)
            THEN h + 1
            ELSE h
        Whole(p, e) ==
            IF e >= 0 THEN Value(ShiftLeft(p, e))
            ELSE Halves(p, e, Value(ShiftRight(p, -e)))
        \* v * 100 = Times(v.m, <<100>>) * 2^v.e
        Hundredths(v) ==
            IF v = Zero THEN 0 ELSE Whole(Times(v.m, <<100>>), v.e)
    IN Hundredths(Eval(expr))

ScoreOfSwapped(total, count, positive) ==
    RoundDiv(100 * (RateWeight * positive * total + PositiveWeight * count * count),
             count * total)

\* round((positive/count * 0.7 + count/total * 0.3) * 100, 2), in hundredths
\* of a point: 3000 stands for 30.0.  The expression is evaluated in binary
\* floating point and round() rounds the double it yields.  That double is
\* within 10^-8 hundredths of the exact value n/d, and an exact value that
\* is no tie (it does not end in 5 at the third decimal) is at least
\* 1/(2 * d) hundredths away from one: while the counts are at most 400 such
\* a value rounds as the double does, and n and d are computed as they are.
\* A tie, and every larger input, is rounded as the double falls.
ScoreOf(total, count, positive) ==
    LET n == 100 * (PositiveWeight * positive * total + RateWeight * count * count)
        d == count * total
    IN IF total <= 400 /\ count <= 400 /\ positive <= 400 /\ 2 * (n % d) # d
       THEN RoundDiv(n, d)
       ELSE RoundFloat(
              [op |-> "*",
               a |-> [op |-> "+",
                      a |-> [op |-> "*",
                             a |-> [op |-> "/", a |-> positive, b |-> count],
                             b |-> [op |-> "/", a |-> PositiveWeight, b |-> 100]],
                      b |-> [op |-> "*",
                             a |-> [op |-> "/", a |-> count, b |-> total],
                             b |-> [op |-> "/", a |-> RateWeight, b |-> 100]]],
               b |-> [op |-> "/", a |-> 100, b |-> 1]])

QualityScoreZero(c) ==
    IF TotalAI(c) = 0 THEN NoScore
    ELSE IF FeedbackCount(c) = 0 THEN 0
    ELSE ScoreOf(TotalAI(c), FeedbackCount(c), PositiveCount(c))

\* calculate_quality_score(conversation): None, or the score in hundredths.
QualityScore(c) ==
    IF TotalAI(c) = 0 THEN NoScore
    ELSE IF FeedbackCount(c) = 0 THEN NoScore
    ELSE ScoreOf(TotalAI(c), FeedbackCount(c), PositiveCount(c))

(* -------------------------- Theme extraction -------------------------- *)
\* Texts are sequences of single characters.
\* The lower-case letters that have an upper-case form, a to z first, and
\* those upper-case forms in the same order (code points below 256).
LowerCase == <<"a", "b", "c", "d", "e", "f", "g", "h", "i", "j", "k", "l",
               "m", "n", "o", "p", "q", "r", "s", "t", "u", "v", "w", "x",
               "y", "z", "à", "á", "â", "ã", "ä", "å", "æ", "ç", "è", "é",
               "ê", "ë", "ì", "í", "î", "ï", "ð", "ñ", "ò", "ó", "ô", "õ",
               "ö", "ø", "ù", "ú", "û", "ü", "ý", "þ">>
UpperCase == <<"A", "B", "C", "D", "E", "F", "G", "H", "I", "J", "K", "L",
               "M", "N", "O", "P", "Q", "R", "S", "T", "U", "V", "W", "X",
               "Y", "Z", "À", "Á", "Â", "Ã", "Ä", "Å", "Æ", "Ç", "È", "É",
               "Ê", "Ë", "Ì", "Í", "Î", "Ï", "Ð", "Ñ", "Ò", "Ó", "Ô", "Õ",
               "Ö", "Ø", "Ù", "Ú", "Û", "Ü", "Ý", "Þ">>
Digits == {"0", "1", "2", "3", "4", "5", "6", "7", "8", "9"}

\* The regular expression's class [a-z].
IsLetter(ch) == \E i \in 1..26 : LowerCase[i] = ch

IsUpper(ch) == \E i \in 1..Len(UpperCase) : UpperCase[i] = ch

\* The regular expression's word characters (\w), which decide where \b
\* holds: the underscore and, the pattern being a str pattern, every
\* alphanumeric character of Unicode (here: of the code points below 256).
IsWordChar(ch) ==
    \/ \E i \in 1..Len(LowerCase) : LowerCase[i] = ch
    \/ IsUpper(ch)
    \/ ch \in Digits
    \/ ch \in {"_", "ª", "²", "³", "µ", "¹", "º", "¼", "½", "¾", "ß", "ÿ"}

ToLowerKeep(ch) == ch

\* str.lower() on one character.
ToLower(ch) ==
    IF IsUpper(ch) THEN LowerCase[CHOOSE i \in 1..Len(UpperCase) : UpperCase[i] = ch]
    ELSE ch

\* note.lower()
Lower(s) == [i \in 1..Len(s) |-> ToLower(s[i])]

\* \b before position i of s (1 <= i <= Len(s) + 1): exactly one of the
\* characters on its two sides is a word character.
WordBoundary(s, i) ==
    LET before == i > 1 /\ IsWordChar(s[i - 1])
        after == i <= Len(s) /\ IsWordChar(s[i])
    IN before # after

\* The last position of the run of [a-z] that starts at i (i - 1: no run).
RECURSIVE RunEnd(_, _)
RunEnd(s, i) ==
    IF i <= Len(s) /\ IsLetter(s[i]) THEN RunEnd(s, i + 1) ELSE i - 1

\* The longest j <= last with \b after s[j] (backtracking of the greedy
\* [a-z]+), or i - 1 when there is none.
RECURSIVE Backtrack(_, _, _)
Backtrack(s, i, last) ==
    IF last < i THEN i - 1
    ELSE IF WordBoundary(s, last + 1) THEN last
    ELSE Backtrack(s, i, last - 1)

\* The end of the match of \b[a-z]+\b at position i, or i - 1 (no match).
MatchAt(s, i) ==
    IF WordBoundary(s, i) THEN Backtrack(s, i, RunEnd(s, i)) ELSE i - 1

\* re.findall(r'\b[a-z]+\b', s): the non-overlapping matches, left to right.
RECURSIVE FindAll(_, _)
FindAll(s, i) ==
    IF i > Len(s) THEN <<>>
    ELSE LET j == MatchAt(s, i)
         IN IF j >= i THEN <<SubSeq(s, i, j)>> \o FindAll(s, j + 1)
            ELSE FindAll(s, i + 1)

\* The stop words of the theme extraction.
STOP_WORDS == {
    <<"t", "h", "e">>, <<"a">>, <<"a", "n">>, <<"a", "n", "d">>,
    <<"o", "r">>, <<"b", "u", "t">>, <<"i", "n">>, <<"o", "n">>,
    <<"a", "t">>, <<"t", "o">>, <<"f", "o", "r">>, <<"o", "f">>,
    <<"w", "i", "t", "h">>, <<"b", "y">>, <<"i", "s">>, <<"w", "a", "s">>,
    <<"a", "r", "e">>, <<"w", "e", "r", "e">>, <<"b", "e">>,
    <<"b", "e", "e", "n">>, <<"b", "e", "i", "n", "g">>,
    <<"h", "a", "v", "e">>, <<"h", "a", "s">>, <<"h", "a", "d">>,
    <<"d", "o">>, <<"d", "o", "e", "s">>, <<"d", "i", "d">>,
    <<"t", "h", "i", "s">>, <<"t", "h", "a", "t">>,
    <<"t", "h", "e", "s", "e">>, <<"t", "h", "o", "s", "e">>, <<"i">>,
    <<"y", "o", "u">>, <<"h", "e">>, <<"s", "h", "e">>, <<"i", "t">>,
    <<"w", "e">>, <<"t", "h", "e", "y">>, <<"n", "o", "t">>, <<"n", "o">>,
    <<"y", "e", "s">>, <<"v", "e", "r", "y">>, <<"t", "o", "o">>,
    <<"s", "o">>, <<"j", "u", "s", "t">>, <<"o", "n", "l", "y">>,
    <<"a", "l", "s", "o">>, <<"m", "o", "r", "e">>, <<"m", "o", "s", "t">>,
    <<"w", "h", "a", "t">>, <<"w", "h", "i", "c", "h">>, <<"w", "h", "o">>,
    <<"w", "h", "e", "n">>, <<"w", "h", "e", "r", "e">>, <<"w", "h", "y">>,
    <<"h", "o", "w">>, <<"c", "a", "n">>, <<"c", "o", "u", "l", "d">>,
    <<"s", "h", "o", "u", "l", "d">>, <<"w", "o", "u", "l", "d">>,
    <<"f", "r", "o", "m">>, <<"a", "b", "o", "u", "t">>,
    <<"i", "n", "t", "o">>, <<"t", "h", "r", "o", "u", "g", "h">>,
    <<"d", "u", "r", "i", "n", "g">>, <<"b", "e", "f", "o", "r", "e">>,
    <<"a", "f", "t", "e", "r">>, <<"a", "b", "o", "v", "e">>,
    <<"b", "e", "l", "o", "w">>, <<"u", "p">>, <<"d", "o", "w", "n">>,
    <<"o", "u", "t">>, <<"o", "f", "f">>, <<"o", "v", "e", "r">>,
    <<"u", "n", "d", "e", "r">>, <<"a", "g", "a", "i", "n">>,
    <<"f", "u", "r", "t", "h", "e", "r">>, <<"t", "h", "e", "n">>,
    <<"o", "n", "c", "e">>, <<"h", "e", "r", "e">>,
    <<"t", "h", "e", "r", "e">>, <<"a", "l", "l">>, <<"e", "a", "c", "h">>,
    <<"b", "o", "t", "h">>, <<"f", "e", "w">>, <<"o", "t", "h", "e", "r">>,
    <<"s", "o", "m", "e">>, <<"s", "u", "c", "h">>, <<"n", "o", "r">>,
    <<"o", "w", "n">>, <<"s", "a", "m", "e">>, <<"t", "h", "a", "n">>,
    <<"s">>, <<"t">>, <<"w", "i", "l", "l">>, <<"d", "o", "n">>,
    <<"n", "o", "w">>, <<"r", "e", "s", "p", "o", "n", "s", "e">>,
    <<"a", "n", "s", "w", "e", "r">>, <<"h", "e", "l", "p", "f", "u", "l">>,
    <<"w", "a", "s", "n">>, <<"d", "i", "d", "n">>
}

KeepsShort(w) == w \notin STOP_WORDS /\ Len(w) >= 3

\* The filter of one candidate word.
Keeps(w) == w \notin STOP_WORDS /\ Len(w) > 3

\* The words of one note that are counted.
NoteWords(note) == SelectSeq(FindAll(Lower(note), 1), Keeps)

\* Counter.update on one word: a Counter keeps its keys in insertion order.
CounterAdd(counter, w) ==
    IF \E i \in 1..Len(counter) : counter[i].word = w
    THEN [i \in 1..Len(counter) |->
            IF counter[i].word = w
            THEN [word |-> w, count |-> counter[i].count + 1]
            ELSE counter[i]]
    ELSE Append(counter, [word |-> w, count |-> 1])

RECURSIVE CounterUpdate(_, _)
CounterUpdate(counter, words) ==
    IF words = <<>> THEN counter
    ELSE CounterUpdate(CounterAdd(counter, Head(words)), Tail(words))

\* The loop over the notes: falsy (empty) notes are skipped.
RECURSIVE CountNotes(_, _)
CountNotes(counter, notes) ==
    IF notes = <<>> THEN counter
    ELSE CountNotes(IF Head(notes) = <<>> THEN counter
                    ELSE CounterUpdate(counter, NoteWords(Head(notes))),
                    Tail(notes))

Without(seq, k) == [i \in 1..(Len(seq) - 1) |-> IF i < k THEN seq[i] ELSE seq[i + 1]]

RECURSIVE MostCommonLastSeen(_, _)
MostCommonLastSeen(counter, n) ==
    IF n <= 0 \/ counter = <<>> THEN <<>>
    ELSE LET k == CHOOSE i \in 1..Len(counter) :
                    \A j \in 1..Len(counter) :
                        \/ counter[j].count < counter[i].count
                        \/ counter[j].count = counter[i].count /\ j <= i
         IN <<counter[k]>> \o MostCommonLastSeen(Without(counter, k), n - 1)

\* Counter.most_common(n): the n entries with the highest counts, highest
\* first, entries of equal count in insertion order.
RECURSIVE MostCommon(_, _)
MostCommon(counter, n) ==
    IF n <= 0 \/ counter = <<>> THEN <<>>
    ELSE LET k == CHOOSE i \in 1..Len(counter) :
                    \A j \in 1..Len(counter) :
                        \/ counter[j].count < counter[i].count
                        \/ counter[j].count = counter[i].count /\ i <= j
         IN <<counter[k]>> \o MostCommon(Without(counter, k), n - 1)

\* extract_feedback_themes(feedback_notes, top_n)
extract_feedback_themes(feedback_notes, top_n) ==
    MostCommon(CountNotes(<<>>, feedback_notes), top_n)

\* The pieces of text that notes are put together from: words that are
\* counted, a case variant, a stop word, a short word, a space, a digit, an
\* underscore and an accented capital.
Pieces == {<<"s", "l", "o", "w">>, <<"S", "l", "o", "w">>, <<"f", "a", "s", "t">>,
           <<"t", "h", "i", "s">>, <<"b", "u", "g">>,
           <<" ">>, <<"3">>, <<"_">>, <<"É">>}

\* No call yet: the notes of the call are being put together.
ThIdle == [pc |-> "build", notes |-> <<>>, pieces |-> 0, top_n |-> 0,
           themes |-> <<>>]

\* One more note (possibly empty) in the argument.
ThAddNote(piece) ==
    /\ th.pc = "build"
    /\ th.pieces < MaxPieces
    /\ th' = [th EXCEPT !.notes = Append(@, piece), !.pieces = @ + 1]
    /\ UNCHANGED <<web, cap, ins, gm, pq, lst>>

\* The last note of the argument made longer.
ThExtend(piece) ==
    /\ th.pc = "build"
    /\ th.pieces < MaxPieces
    /\ th.notes # <<>>
    /\ th' = [th EXCEPT !.notes[Len(th.notes)] = @ \o piece, !.pieces = @ + 1]
    /\ UNCHANGED <<web, cap, ins, gm, pq, lst>>

\* The call and its result.
ThExtract(top_n) ==
    /\ th.pc = "build"
    /\ th' = [th EXCEPT !.pc = "done", !.top_n = top_n,
                        !.themes = extract_feedback_themes(th.notes, top_n)]
    /\ UNCHANGED <<web, cap, ins, gm, pq, lst>>

(* ----------------------------- InsightsView --------------------------- *)
\* Values of the include_summary query parameter (Missing: not given).
SummaryParams == {Missing, <<"f", "a", "l", "s", "e">>, <<"F", "a", "l", "s", "E">>}

IncludeSummaryAlways(q) == TRUE

\* request.query_params.get('include_summary', 'true').lower() != 'false'
IncludeSummary(q) ==
    Lower(IF q = Missing THEN <<"t", "r", "u", "e">> ELSE q) # <<"f", "a", "l", "s", "e">>

\* The generated summary text.
SummaryText == "summary"

RateOfFraction(num, den) == IF den > 0 THEN RoundDiv(100 * num, den) ELSE 0

\* round(num / den * 100, 2) or 0 when the denominator is 0, in hundredths
\* of a percent.  As in ScoreOf, round() rounds the double the expression
\* yields: an exact value that is no tie rounds as the double does (numbers
\* of at most 200000), a tie and every larger input as the double falls.
RateOf(num, den) ==
    IF den <= 0 THEN 0
    ELSE IF num <= 200000 /\ den <= 200000 /\ 2 * ((10000 * num) % den) # den
    THEN RoundDiv(10000 * num, den)
    ELSE RoundFloat([op |-> "*", a |-> [op |-> "/", a |-> num, b |-> den],
                     b |-> [op |-> "/", a |-> 100, b |-> 1]])

\* Feedback.objects.exclude(note__isnull=True).exclude(note=""): the notes
\* that are neither null nor empty, in the model's default ordering, newest
\* row first.
RECURSIVE NotesOf(_)
NotesOf(fbs) ==
    IF fbs = {} THEN <<>>
    ELSE LET f == CHOOSE x \in fbs : \A y \in fbs : x.created_at >= y.created_at
         IN (IF f.note # NoNote /\ f.note # <<>>
             THEN <<f.note>> ELSE <<>>) \o NotesOf(fbs \ {f})

RECURSIVE SumScores(_)
SumScores(entries) ==
    IF entries = <<>> THEN 0
    ELSE Head(entries).quality_score + SumScores(Tail(entries))

ScoredAll(entries) == entries

\* quality_scores: the entries whose score is not None.
Scored(entries) == SelectSeq(entries, LAMBDA e : e.quality_score # NoScore)

\* The four buckets (scores in hundredths: 8000 stands for 80).
QualityDistribution(entries) ==
    LET scores == Scored(entries)
    IN [excellent |-> Len(SelectSeq(scores, LAMBDA e : e.quality_score >= 8000)),
        good |-> Len(SelectSeq(scores, LAMBDA e : 6000 <= e.quality_score
                                                   /\ e.quality_score < 8000)),
        fair |-> Len(SelectSeq(scores, LAMBDA e : 4000 <= e.quality_score
                                                   /\ e.quality_score < 6000)),
        poor |-> Len(SelectSeq(scores, LAMBDA e : e.quality_score < 4000))]

AverageScoreZero(entries, above) ==
    LET n == SumScores(Scored(entries))
        d == Len(Scored(entries))
    IN IF Scored(entries) = <<>> THEN 0
       ELSE IF 2 * (n % d) = d THEN (n \div d) + (IF above THEN 1 ELSE 0)
       ELSE RoundDiv(n, d)

\* round(sum(quality_scores) / len(quality_scores), 2), or None.  The sum
\* and the quotient are doubles: where the exact average is a tie, the
\* double lies above it or below it (above), and the result is the exact
\* average rounded up or down.
AverageScore(entries, above) ==
    LET n == SumScores(Scored(entries))
        d == Len(Scored(entries))
    IN IF Scored(entries) = <<>> THEN NoScore
       ELSE IF 2 * (n % d) = d THEN (n \div d) + (IF above THEN 1 ELSE 0)
       ELSE RoundDiv(n, d)

\* The sides a double can fall on: both for a tied average, else the one
\* that changes nothing.
AverageSides(entries) ==
    LET n == SumScores(Scored(entries))
        d == Len(Scored(entries))
    IN IF Scored(entries) # <<>> /\ 2 * (n % d) = d THEN BOOLEAN ELSE {FALSE}

\* No insights request: its locals and, once it has answered, its report.
InsIdle == [pc |-> "idle", param |-> Missing, include_summary |-> TRUE,
            total_conversations |-> 0, total_messages |-> 0,
            total_user_messages |-> 0, total_ai_messages |-> 0,
            total_feedback |-> 0, positive_feedback |-> 0,
            negative_feedback |-> 0, top_themes |-> <<>>,
            convs |-> <<>>, total_ai |-> 0, feedback_count |-> 0,
            quality_score |-> NoScore, conversations_with_scores |-> <<>>,
            conversations |-> <<>>, llm_calls |-> 0,
            summary |-> None, raised |-> FALSE, satisfaction_rate |-> 0,
            feedback_rate |-> 0,
            distribution |-> [excellent |-> 0, good |-> 0, fair |-> 0,
                              poor |-> 0],
            average |-> NoScore]

\* The request with its parameter parsed, before its first query.
InsStart(q) == [InsIdle EXCEPT !.pc = "count_conversations", !.param = q,
                               !.include_summary = IncludeSummary(q)]

SummaryStepRaises(r, ok) ==
    LET x == [r EXCEPT !.pc = "done",
                       !.conversations =
                           SubSeq(r.conversations_with_scores, 1,
                                  IF Len(r.conversations_with_scores) < ListedLimit
                                  THEN Len(r.conversations_with_scores)
                                  ELSE ListedLimit)]
    IN IF ~r.include_summary THEN x
       ELSE IF ok THEN [x EXCEPT !.llm_calls = @ + 1, !.summary = SummaryText]
       ELSE [x EXCEPT !.llm_calls = @ + 1, !.raised = TRUE]

\* The summary and the response.  The generator is called only when the
\* summary is asked for; a GeminiServiceError (ok = FALSE) leaves the
\* summary None.  The response lists conversations_with_scores[:20].
SummaryStep(r, ok) ==
    LET x == [r EXCEPT !.pc = "done",
                       !.conversations =
                           SubSeq(r.conversations_with_scores, 1,
                                  IF Len(r.conversations_with_scores) < ListedLimit
                                  THEN Len(r.conversations_with_scores)
                                  ELSE ListedLimit)]
    IN IF ~r.include_summary THEN x
       ELSE IF ok THEN [x EXCEPT !.llm_calls = @ + 1, !.summary = SummaryText]
       ELSE [x EXCEPT !.llm_calls = @ + 1, !.summary = None]

\* One database query of the handler (or, last, the summary and the
\* response), on the store as it is when the step runs; above is the side
\* on which the double of a tied average falls.  The loop of lines 181-190
\* runs the SELECT of the conversations (newest first: the newest is the
\* one created last), the two SELECTs of the prefetch (messages, then
\* their feedback, whose rows the handler never reads) and, for each
\* conversation, the COUNTs of calculate_quality_score (as many as it
\* reaches) and the COUNT of line 189; total_messages is answered from the
\* prefetched rows.
InsStep(r, ok, above) ==
    LET c == Head(r.convs).id
        ids == {cv.id : cv \in conversations}
        \* the loop has ended: lines 193-200
        Scores(x) ==
            [x EXCEPT !.pc = "summary",
                      !.distribution = QualityDistribution(x.conversations_with_scores),
                      !.average = AverageScore(x.conversations_with_scores, above)]
        \* calculate_quality_score has returned: on to line 189
        Returned(x, score) ==
            [x EXCEPT !.pc = "entry_feedback_count", !.quality_score = score,
                      !.total_ai = 0, !.feedback_count = 0]
        entered ==
            [r EXCEPT !.conversations_with_scores =
                          Append(@, [id |-> c, quality_score |-> r.quality_score,
                                     total_messages |-> Head(r.convs).total_messages,
                                     feedback_count |-> FeedbackCount(c)]),
                      !.convs = Tail(@), !.quality_score = NoScore]
    IN
    CASE r.pc = "count_conversations" ->
           [r EXCEPT !.pc = "count_messages",
                     !.total_conversations = Cardinality(conversations)]
      [] r.pc = "count_messages" ->
           [r EXCEPT !.pc = "count_user",
                     !.total_messages = Cardinality(messages)]
      [] r.pc = "count_user" ->
           [r EXCEPT !.pc = "count_ai",
                     !.total_user_messages =
                         Cardinality({ms \in messages : ms.role = ROLE_USER})]
      [] r.pc = "count_ai" ->
           [r EXCEPT !.pc = "count_feedback",
                     !.total_ai_messages =
                         Cardinality({ms \in messages : ms.role = ROLE_AI})]
      [] r.pc = "count_feedback" ->
           [r EXCEPT !.pc = "count_positive",
                     !.total_feedback = Cardinality(feedback)]
      [] r.pc = "count_positive" ->
           [r EXCEPT !.pc = "count_negative",
                     !.positive_feedback =
                         Cardinality({f \in feedback : f.rating = TRUE})]
      [] r.pc = "count_negative" ->
           [r EXCEPT !.pc = "themes",
                     !.negative_feedback =
                         Cardinality({f \in feedback : f.rating = FALSE}),
                     !.satisfaction_rate =
                         RateOf(r.positive_feedback, r.total_feedback),
                     !.feedback_rate =
                         RateOf(r.total_feedback, r.total_ai_messages)]
      [] r.pc = "themes" ->
           [r EXCEPT !.pc = "select_conversations",
                     !.top_themes = extract_feedback_themes(NotesOf(feedback), 10)]
      [] r.pc = "select_conversations" ->
           IF ids = {} THEN Scores(r)
           ELSE [r EXCEPT !.pc = "prefetch_messages",
                          !.convs =
                              [i \in 1..Cardinality(ids) |->
                                  [id |-> CHOOSE x \in ids :
                                              Cardinality({y \in ids : y > x}) = i - 1,
                                   total_messages |-> 0]]]
      [] r.pc = "prefetch_messages" ->
           [r EXCEPT !.pc = IF \E i \in DOMAIN r.convs :
                                  ConvMessages(r.convs[i].id) # {}
                            THEN "prefetch_feedback" ELSE "score_total_ai",
                     !.convs =
                         [i \in DOMAIN r.convs |->
                             [r.convs[i] EXCEPT !.total_messages =
                                 Cardinality(ConvMessages(r.convs[i].id))]]]
      [] r.pc = "prefetch_feedback" -> [r EXCEPT !.pc = "score_total_ai"]
      [] r.pc = "score_total_ai" ->
           IF TotalAI(c) = 0 THEN Returned(r, NoScore)
           ELSE [r EXCEPT !.pc = "score_feedback_count", !.total_ai = TotalAI(c)]
      [] r.pc = "score_feedback_count" ->
           IF FeedbackCount(c) = 0 THEN Returned(r, NoScore)
           ELSE [r EXCEPT !.pc = "score_positive_count",
                          !.feedback_count = FeedbackCount(c)]
      [] r.pc = "score_positive_count" ->
           Returned(r, ScoreOf(r.total_ai, r.feedback_count, PositiveCount(c)))
      [] r.pc = "entry_feedback_count" ->
           IF entered.convs = <<>> THEN Scores(entered)
           ELSE [entered EXCEPT !.pc = "score_total_ai"]
      [] r.pc = "summary" -> SummaryStep(r, ok)
      [] OTHER -> r

\* The handler run from r to its response with nothing in between.
RECURSIVE InsRun(_, _, _)
InsRun(r, ok, above) ==
    IF r.pc \in {"idle", "done"} THEN r
    ELSE InsRun(InsStep(r, ok, above), ok, above)

(* ------------------------- generate_reply ----------------------------- *)
\* Values of the GEMINI_API_KEY environment variable: unset, empty, set.
ApiKeys == {None, "", "k"}
\* Characters of the text a response carries.
ReplyChars == {" ", "\n", "o", "k"}
\* What the client call does: it raises one of these exceptions, or returns
\* a response without a text attribute, with text None, with a text that is
\* no string, or with a text.
ClientErrors == {"TimeoutError", "ValueError"}
ClientKinds == ClientErrors \cup {"missing", "none", "nonstring", "text"}

Raise(cause, calls) ==
    [kind |-> "raise", error |-> "GeminiServiceError", cause |-> cause,
     text |-> <<>>, calls |-> calls]

GenerateReplyUnwrapped(key, import_ok, kind, text) ==
    IF key = None \/ key = ""
    THEN Raise("api key", 0)
    ELSE IF ~import_ok
    THEN Raise("client", 0)
    ELSE IF kind \in ClientErrors
    THEN [kind |-> "raise", error |-> kind, cause |-> "request",
          text |-> <<>>, calls |-> 1]
    ELSE IF kind = "nonstring"
    THEN Raise("request", 1)
    ELSE LET stripped == Strip(IF kind = "text" THEN text ELSE <<>>)
         IN IF stripped = <<>>
            THEN Raise("request", 1)
            ELSE [kind |-> "return", error |-> None, cause |-> None,
                  text |-> stripped, calls |-> 1]

\* generate_reply: the key is read first and the client is neither imported
\* nor called without it; every exception of the client call, the
\* AttributeError of a text without strip() and the "Empty response" error
\* raised inside the try block are caught by `except Exception` and raised
\* again as GeminiServiceError; `getattr(resp, "text", None) or ""` makes a
\* missing and a None text the empty string.
GenerateReply(key, import_ok, kind, text) ==
    IF key = None \/ key = ""
    THEN Raise("api key", 0)
    ELSE IF ~import_ok
    THEN Raise("client", 0)
    ELSE IF kind \in ClientErrors
    THEN Raise("request", 1)
    ELSE IF kind = "nonstring"
    THEN Raise("request", 1)
    ELSE LET stripped == Strip(IF kind = "text" THEN text ELSE <<>>)
         IN IF stripped = <<>>
            THEN Raise("request", 1)
            ELSE [kind |-> "return", error |-> None, cause |-> None,
                  text |-> stripped, calls |-> 1]

NoOutcome == [kind |-> "none", error |-> None, cause |-> None,
              text |-> <<>>, calls |-> 0]

GmIdle == [pc |-> "idle", key |-> None, import_ok |-> FALSE,
           kind |-> "none", text |-> <<>>, result |-> NoOutcome]

\* The environment of a call: the key, and whether google.genai imports.
GmEnv(key, import_ok) ==
    /\ gm.pc = "idle"
    /\ gm' = [gm EXCEPT !.pc = "env", !.key = key, !.import_ok = import_ok]
    /\ UNCHANGED <<web, cap, th, pq, ins, lst>>

\* One more character of the text the client's response will carry.
GmExtend(ch) ==
    /\ gm.pc = "env"
    /\ Len(gm.text) < MaxReplyLen
    /\ gm' = [gm EXCEPT !.text = Append(gm.text, ch)]
    /\ UNCHANGED <<web, cap, th, pq, ins, lst>>

GmCall(kind) ==
    /\ gm.pc = "env"
    /\ kind = "text" \/ gm.text = <<>>
    /\ gm' = [gm EXCEPT !.pc = "done", !.kind = kind,
                        !.result = GenerateReply(gm.key, gm.import_ok,
                                                 kind, gm.text)]
    /\ UNCHANGED <<web, cap, th, pq, ins, lst>>

(* --------------------- parse_int_query_param -------------------------- *)
\* Characters of a query parameter's value.
ParamChars == {"0", "1", "2", "5", "-", "+", " ", "_", "a"}

DigitValue(ch) ==
    CASE ch = "0" -> 0 [] ch = "1" -> 1 [] ch = "2" -> 2 [] ch = "3" -> 3
      [] ch = "4" -> 4 [] ch = "5" -> 5 [] ch = "6" -> 6 [] ch = "7" -> 7
      [] ch = "8" -> 8 [] ch = "9" -> 9

RECURSIVE DecimalValue(_, _)
DecimalValue(s, acc) ==
    IF s = <<>> THEN acc
    ELSE IF Head(s) = "_" THEN DecimalValue(Tail(s), acc)
    ELSE DecimalValue(Tail(s), 10 * acc + DigitValue(Head(s)))

\* int(str): surrounding whitespace is dropped, one sign may lead, and the
\* rest is decimal digits, single underscores allowed between two digits.
\* int() does not take the four information separators for whitespace.
\* The result is [ok, value]; ok is FALSE where int() raises ValueError.
ParseInt(s) ==
    LET t == Strip(s)
        signed == t # <<>> /\ Head(t) \in {"+", "-"}
        body == IF signed THEN Tail(t) ELSE t
        wellFormed ==
          /\ \A i \in 1..Len(s) : s[i] \notin {"", "", "", ""}
          /\ body # <<>>
          /\ \A i \in 1..Len(body) : body[i] \in Digits \cup {"_"}
          /\ body[1] \in Digits
          /\ body[Len(body)] \in Digits
          /\ \A i \in 1..(Len(body) - 1) : ~(body[i] = "_" /\ body[i + 1] = "_")
    IN IF ~wellFormed THEN [ok |-> FALSE, value |-> 0]
       ELSE [ok |-> TRUE,
             value |-> IF signed /\ Head(t) = "-"
                       THEN 0 - DecimalValue(body, 0)
                       ELSE DecimalValue(body, 0)]

\* The arguments of the call sites: default, min_val and max_val (has_min
\* and has_max are FALSE where the argument is None).
\* In this order: the conversation list's limit and offset, the message
\* list's limit and since.
CallSites ==
    {[default |-> 20, has_min |-> TRUE, min |-> 1, has_max |-> TRUE, max |-> 100],
     [default |-> 0, has_min |-> TRUE, min |-> 0, has_max |-> FALSE, max |-> 0],
     [default |-> 50, has_min |-> TRUE, min |-> 1, has_max |-> TRUE, max |-> 200],
     [default |-> 0, has_min |-> TRUE, min |-> 0, has_max |-> FALSE, max |-> 0]}
\* The arguments of the calls the tests make: no bounds, min_val alone,
\* max_val alone, and both.
TestArgs ==
    {[default |-> 20, has_min |-> FALSE, min |-> 0, has_max |-> FALSE, max |-> 0],
     [default |-> 20, has_min |-> TRUE, min |-> 1, has_max |-> FALSE, max |-> 0],
     [default |-> 20, has_min |-> FALSE, min |-> 0, has_max |-> TRUE, max |-> 100],
     [default |-> 20, has_min |-> TRUE, min |-> 1, has_max |-> TRUE, max |-> 100]}

\* value = max(value, min_val) when given, then min(value, max_val) when
\* given.
Clamp(value, args) ==
    LET low == IF args.has_min /\ value < args.min THEN args.min ELSE value
    IN IF args.has_max /\ low > args.max THEN args.max ELSE low

ParseIntQueryParamNoMax(raw, args) ==
    IF raw = Missing
    THEN Clamp(args.default, [args EXCEPT !.has_max = FALSE])
    ELSE IF ParseInt(raw).ok
    THEN Clamp(ParseInt(raw).value, [args EXCEPT !.has_max = FALSE])
    ELSE args.default

\* parse_int_query_param: query_params.get(name, default) gives the default
\* itself for a missing parameter, which then goes through int() and the
\* clamping like a supplied value; a ValueError returns the default as it
\* is.
ParseIntQueryParam(raw, args) ==
    IF raw = Missing
    THEN Clamp(args.default, args)
    ELSE IF ParseInt(raw).ok
    THEN Clamp(ParseInt(raw).value, args)
    ELSE args.default

PqIdle == [pc |-> "idle",
           args |-> [default |-> 0, has_min |-> FALSE, min |-> 0,
                     has_max |-> FALSE, max |-> 0],
           raw |-> Missing, result |-> 0]

\* The arguments of a call, the parameter missing or present (and empty).
PqArgs(args, present) ==
    /\ pq.pc = "idle"
    /\ pq' = [pq EXCEPT !.pc = "args", !.args = args,
                        !.raw = IF present THEN <<>> ELSE Missing]
    /\ UNCHANGED <<web, cap, th, gm, ins, lst>>

\* One more character of the parameter's value.
PqExtend(ch) ==
    /\ pq.pc = "args"
    /\ pq.raw # Missing
    /\ Len(pq.raw) < MaxParamLen
    /\ pq' = [pq EXCEPT !.raw = Append(pq.raw, ch)]
    /\ UNCHANGED <<web, cap, th, gm, ins, lst>>

PqParse ==
    /\ pq.pc = "args"
    /\ pq' = [pq EXCEPT !.pc = "done",
                        !.result = ParseIntQueryParam(pq.raw, pq.args)]
    /\ UNCHANGED <<web, cap, th, gm, ins, lst>>

(* --------------------- MessageListCreateView.get ---------------------- *)
ListMessagesNewest(c, since, limit) ==
    LET qs == IF since # 0 THEN {ms \in ConvMessages(c) : ms.seq > since}
              ELSE ConvMessages(c)
        n == IF Cardinality(qs) < limit THEN Cardinality(qs) ELSE limit
    IN [i \in 1..n |->
          CHOOSE m \in qs : Cardinality({o \in qs : o.seq > m.seq}) = i - 1]

ListMessagesFrom(c, since, limit) ==
    LET qs == IF since # 0 THEN {ms \in ConvMessages(c) : ms.seq >= since}
              ELSE ConvMessages(c)
        n == IF Cardinality(qs) < limit THEN Cardinality(qs) ELSE limit
    IN [i \in 1..n |->
          CHOOSE m \in qs : Cardinality({o \in qs : o.seq < m.seq}) = i - 1]

\* conv.messages, filtered by sequence__gt=since when since is truthy
\* (not 0), ordered by sequence, cut to the first `limit` rows.
ListMessages(c, since, limit) ==
    LET qs == IF since # 0 THEN {ms \in ConvMessages(c) : ms.seq > since}
              ELSE ConvMessages(c)
        n == IF Cardinality(qs) < limit THEN Cardinality(qs) ELSE limit
    IN [i \in 1..n |->
          CHOOSE m \in qs : Cardinality({o \in qs : o.seq < m.seq}) = i - 1]

\* No listing yet; got is what the polling client has received so far.
LstIdle == [pc |-> "idle", status |-> "", conv |-> 0, since |-> 0,
            limit |-> 0, results |-> <<>>, lastSeq |-> 0, got |-> <<>>]

\* The response to GET /conversations/<c>/messages with the two query
\* parameters as the client wrote them.
Listing(c, sinceParam, limitParam) ==
    IF ~ConvExists(c)
    THEN [LstIdle EXCEPT !.pc = "done", !.status = "404", !.conv = c]
    ELSE LET since == ParseIntQueryParam(sinceParam,
                        [default |-> 0, has_min |-> TRUE, min |-> 0,
                         has_max |-> FALSE, max |-> 0])
             limit == ParseIntQueryParam(limitParam,
                        [default |-> 50, has_min |-> TRUE, min |-> 1,
                         has_max |-> TRUE, max |-> 200])
             results == ListMessages(c, since, limit)
         IN [LstIdle EXCEPT !.pc = "done", !.status = "200", !.conv = c,
                            !.since = since, !.limit = limit,
                            !.results = results,
                            !.lastSeq = IF results # <<>>
                                        THEN results[Len(results)].seq
                                        ELSE since]

GetMessages(c, sinceParam, limitParam) ==
    /\ req["w1"].pc = "idle"
    /\ lst' = Listing(c, sinceParam, limitParam)
    /\ UNCHANGED <<web, cap, pure, ins>>

\* str(n) for a sequence number.
RECURSIVE DecimalOf(_)
DecimalOf(n) ==
    LET digit == <<"0", "1", "2", "3", "4", "5", "6", "7", "8", "9">>
    IN IF n < 10 THEN <<digit[n + 1]>>
       ELSE DecimalOf(n \div 10) \o <<digit[(n % 10) + 1]>>

\* The polling client: it lists with since set to the lastSeq of its
\* previous listing (0 at first) and keeps what it receives.
Poll(c, limitParam) ==
    LET r == Listing(c, DecimalOf(lst.lastSeq), limitParam)
    IN /\ lst' = IF r.status = "200"
                 THEN [r EXCEPT !.got = lst.got \o r.results]
                 ELSE [r EXCEPT !.got = lst.got, !.lastSeq = lst.lastSeq]
       /\ UNCHANGED <<web, cap, pure, ins>>

(* --------------------------- Init ------------------------------------- *)
InitWith(bounds) ==
    /\ cap = bounds
    /\ conversations = {}
    /\ messages = {}
    /\ feedback = {}
    /\ nextConvId = 1
    /\ nextMsgId = 1
    /\ nextFbId = 1
    /\ req = [p \in Procs |-> Idle]
    /\ resp = NoResp
    /\ ormOps = 0
    /\ plain = {}
    /\ th = ThIdle
    /\ ins = InsIdle
    /\ gm = GmIdle
    /\ pq = PqIdle
    /\ lst = LstIdle

Init ==
    InitWith([convs |-> MaxConvs, msgs |-> MaxMsgs, fbs |-> MaxFb, orm |-> 0])

InitConc ==
    InitWith([convs |-> 1, msgs |-> ConcMsgs, fbs |-> ConcFb, orm |-> ConcOrmOps])

InitOrm ==
    InitWith([convs |-> 1, msgs |-> OrmMsgs, fbs |-> OrmFb, orm |-> OrmOps])

InitInsights ==
    InitWith([convs |-> 2, msgs |-> InsMsgs, fbs |-> InsFb, orm |-> 0])

InitInsOne ==
    InitWith([convs |-> 1, msgs |-> InsOneMsgs, fbs |-> InsOneFb, orm |-> 0])

InitInsConc ==
    InitWith([convs |-> 1, msgs |-> InsConcMsgs, fbs |-> InsConcFb, orm |-> 0])

InitHistory == InitWith([convs |-> 1, msgs |-> HistMsgs, fbs |-> 0, orm |-> 0])

InitList ==
    InitWith([convs |-> 2, msgs |-> ListMsgs, fbs |-> 0, orm |-> ListOrmOps])

InitErrors ==
    InitWith([convs |-> 2, msgs |-> ErrMsgs, fbs |-> ErrFb, orm |-> 0])

InitPoll == InitWith([convs |-> 1, msgs |-> PollMsgs, fbs |-> 0, orm |-> 0])

(* ------------------- ConversationListCreateView.post ------------------ *)
CreateConversation(t) ==
    /\ nextConvId <= cap.convs
    /\ conversations' = conversations \cup
         {[id |-> nextConvId, title |-> IF Falsy(t) THEN NoTitle ELSE t]}
    /\ nextConvId' = nextConvId + 1
    /\ plain' = plain \cup {nextConvId}
    /\ resp' = Response("create_conversation", "201")
    /\ UNCHANGED <<messages, feedback, nextMsgId, nextFbId, req, ormOps>>

(* --------------------- ConversationDetailView.get -------------------- *)
\* The serialized conversation carries its quality score.
GetConversation(c) ==
    /\ req["w1"].pc = "idle"
    /\ resp' = IF ConvExists(c)
               THEN [op |-> "get_conversation", status |-> "200",
                     score |-> QualityScore(c)]
               ELSE Response("get_conversation", "404")
    /\ UNCHANGED <<store, nextConvId, nextMsgId, nextFbId, req, ormOps, plain>>

(* ---------------------- CreateMessageSerializer ----------------------- *)
TextValidUntrimmed(text) ==
    /\ text # Missing
    /\ text # <<>>
    /\ Len(text) <= TextMaxLength

\* CharField(max_length=1000, allow_blank=False, trim_whitespace=True): the
\* text is required, it is trimmed, what is left must not be blank, and the
\* length limit applies to the trimmed text.
TextValid(text) ==
    /\ text # Missing
    /\ Strip(text) # <<>>
    /\ Len(Strip(text)) <= TextMaxLength

(* -------------------- ConversationDetailView.patch -------------------- *)
\* get_object_or_404; UpdateConversationSerializer: the title may be absent
\* or null, it is trimmed, the trimmed title may be blank and is at most 200
\* characters long, and validate_title makes a blank title None; then
\* conv.title = title and conv.save().  The handler runs alone here (one
\* request at a time), so its two statements are one step.
PatchTitle(c, title) ==
    /\ req["w1"].pc = "idle"
    /\ IF ~ConvExists(c)
       THEN /\ resp' = Response("patch_conversation", "404")
            /\ UNCHANGED conversations
       ELSE IF title # Missing /\ Len(Strip(title)) > TitleMaxLength
       THEN /\ resp' = Response("patch_conversation", "400")
            /\ UNCHANGED conversations
       ELSE /\ conversations' =
                 {IF cv.id = c
                  THEN [cv EXCEPT !.title =
                          IF title = Missing \/ Strip(title) = <<>>
                          THEN NoTitle ELSE Strip(title)]
                  ELSE cv : cv \in conversations}
            /\ resp' = Response("patch_conversation", "200")
    /\ UNCHANGED <<messages, feedback, nextConvId, nextMsgId, nextFbId, req,
                   ormOps, plain>>

(* --------------------- MessageListCreateView.post --------------------- *)
HistoryOldest(c) ==
    LET ms == ConvMessages(c)
        n  == IF Cardinality(ms) < HistoryLimit THEN Cardinality(ms)
              ELSE HistoryLimit
        low == [i \in 1..n |->
                 CHOOSE m \in ms :
                   Cardinality({o \in ms : o.seq < m.seq}) = i - 1]
    IN [i \in 1..n |-> [role |-> low[i].role, text |-> low[i].text]]

\* list(conv.messages.order_by("-sequence").values("role", "text")[:10])[::-1]:
\* the 10 messages of highest sequence, lowest of them first.
History(c) ==
    LET ms == ConvMessages(c)
        n  == IF Cardinality(ms) < HistoryLimit THEN Cardinality(ms)
              ELSE HistoryLimit
        top == [i \in 1..n |->
                 CHOOSE m \in ms :
                   Cardinality({o \in ms : o.seq > m.seq}) = i - 1]
    IN [i \in 1..n |-> [role |-> top[n + 1 - i].role,
                        text |-> top[n + 1 - i].text]]

\* get_object_or_404 and the validation of the payload: conv holds the
\* title as it is now.
PostBegin(p, c, text) ==
    /\ CanStart(p)
    /\ IF ~ConvExists(c)
       THEN /\ resp' = Response("post_message", "404")
            /\ UNCHANGED req
       ELSE IF ~TextValid(text)
       THEN /\ resp' = Response("post_message", "400")
            /\ UNCHANGED req
       ELSE /\ MsgIdsFree(2)
            /\ req' = [req EXCEPT ![p] =
                 [Idle EXCEPT !.pc = "post_count", !.conv = c,
                              !.text = Strip(text),
                              !.title = TheConversation(c).title]]
            /\ resp' = NoResp
    /\ UNCHANGED <<store, nextConvId, nextMsgId, nextFbId, ormOps, plain>>

\* Message.objects.create of the user message: its save() computes the
\* sequence.
PostCountUser(p) ==
    /\ req[p].pc = "post_count"
    /\ req' = [req EXCEPT ![p].pc = "post_user",
                          ![p].seq = NextSequence(req[p].conv)]
    /\ resp' = NoResp
    /\ UNCHANGED <<store, nextConvId, nextMsgId, nextFbId, ormOps, plain>>

\* INSERT of the user message.
PostInsertUser(p) ==
    /\ req[p].pc = "post_user"
    /\ IF MessageInsertOk(req[p].conv, req[p].seq)
       THEN /\ messages' = messages \cup
                 {NewMessage(req[p].conv, ROLE_USER, req[p].seq, req[p].text)}
            /\ nextMsgId' = nextMsgId + 1
            /\ req' = [req EXCEPT ![p].pc = "post_history", ![p].msg = nextMsgId]
            /\ resp' = NoResp
       ELSE /\ req' = [req EXCEPT ![p] = Idle]
            /\ resp' = Response("post_message", "500")
            /\ UNCHANGED <<messages, nextMsgId>>
    /\ UNCHANGED <<conversations, feedback, nextConvId, nextFbId, ormOps, plain>>

\* The history query.
PostHistory(p) ==
    /\ req[p].pc = "post_history"
    /\ req' = [req EXCEPT ![p].pc = "post_gen",
                          ![p].history = History(req[p].conv)]
    /\ resp' = NoResp
    /\ UNCHANGED <<store, nextConvId, nextMsgId, nextFbId, ormOps, plain>>

PostGenerateRollback(p, ok) ==
    /\ req[p].pc = "post_gen"
    /\ IF ok
       THEN /\ req' = [req EXCEPT ![p].pc = "post_ai",
                                  ![p].seq = NextSequence(req[p].conv)]
            /\ resp' = NoResp
            /\ UNCHANGED store
       ELSE /\ req' = [req EXCEPT ![p] = Idle]
            /\ resp' = Response("post_message", "502")
            /\ messages' = {ms \in messages : ms.id # req[p].msg}
            /\ UNCHANGED <<conversations, feedback>>
    /\ UNCHANGED <<nextConvId, nextMsgId, nextFbId, ormOps, plain>>

\* gemini.generate_reply raises GeminiServiceError (the 502; the user
\* message stays), or it returns and Message.objects.create of the AI
\* message begins: its save() computes the sequence.  The call touches no
\* row, so it is one step with the query that follows it.
PostGenerate(p, ok) ==
    /\ req[p].pc = "post_gen"
    /\ IF ok
       THEN /\ req' = [req EXCEPT ![p].pc = "post_ai",
                                  ![p].seq = NextSequence(req[p].conv)]
            /\ resp' = NoResp
       ELSE /\ req' = [req EXCEPT ![p] = Idle]
            /\ resp' = Response("post_message", "502")
    /\ UNCHANGED <<store, nextConvId, nextMsgId, nextFbId, ormOps, plain>>

\* INSERT of the AI message; `not conv.title` is decided on the title
\* loaded when the request began, and a conversation with a title is
\* answered at once.
PostInsertAI(p) ==
    /\ req[p].pc = "post_ai"
    /\ IF ~MessageInsertOk(req[p].conv, req[p].seq)
       THEN /\ req' = [req EXCEPT ![p] = Idle]
            /\ resp' = Response("post_message", "500")
            /\ UNCHANGED <<messages, nextMsgId>>
       ELSE /\ messages' = messages \cup
                 {NewMessage(req[p].conv, ROLE_AI, req[p].seq, ReplyText)}
            /\ nextMsgId' = nextMsgId + 1
            /\ IF Falsy(req[p].title)
               THEN /\ req' = [req EXCEPT ![p].pc = "post_users"]
                    /\ resp' = NoResp
               ELSE /\ req' = [req EXCEPT ![p] = Idle]
                    /\ resp' = Response("post_message", "201")
    /\ UNCHANGED <<conversations, feedback, nextConvId, nextFbId, ormOps, plain>>

\* conv.messages.filter(role=ROLE_USER).count() == 1
PostCountUsers(p) ==
    /\ req[p].pc = "post_users"
    /\ IF Cardinality({ms \in ConvMessages(req[p].conv) : ms.role = ROLE_USER}) = 1
       THEN /\ req' = [req EXCEPT ![p].pc = "post_title"]
            /\ resp' = NoResp
       ELSE /\ req' = [req EXCEPT ![p] = Idle]
            /\ resp' = Response("post_message", "201")
    /\ UNCHANGED <<store, nextConvId, nextMsgId, nextFbId, ormOps, plain>>

\* conv.save(update_fields=["title"]) with the title made of the request's
\* text, then the 201; the UPDATE of a row that is gone raises
\* DatabaseError.
PostSaveTitle(p) ==
    /\ req[p].pc = "post_title"
    /\ IF ConvExists(req[p].conv)
       THEN /\ conversations' =
                 {IF cv.id = req[p].conv
                  THEN [cv EXCEPT !.title = AutoTitle(req[p].text)]
                  ELSE cv : cv \in conversations}
            /\ resp' = Response("post_message", "201")
       ELSE /\ resp' = Response("post_message", "500")
            /\ UNCHANGED conversations
    /\ req' = [req EXCEPT ![p] = Idle]
    /\ UNCHANGED <<messages, feedback, nextConvId, nextMsgId, nextFbId, ormOps,
                   plain>>

(* ------------------------ Feedback persistence ------------------------ *)
FeedbackUniqueOff(m) == TRUE

\* OneToOneField(message): the unique constraint on Feedback.message.
FeedbackUnique(m) == FeedbackOf(m) = {}

\* The INSERT of a feedback row succeeds when its message exists (foreign
\* key) and no other feedback row names that message.
FeedbackInsertOk(m) == MsgExists(m) /\ FeedbackUnique(m)

CreateDefaultsNoNote(rating, note) == [rating |-> rating, note |-> <<>>]

\* defaults of get_or_create: the rating, and `note or ""`.
CreateDefaults(rating, note) ==
    [rating |-> rating, note |-> IF note = Missing THEN <<>> ELSE note]

\* The fields an update leaves on an existing feedback whose note was `old`:
\* the rating always, the note only when one is supplied.
UpdatedFieldsOverwrite(old, rating, note) ==
    [rating |-> rating, note |-> IF note # Missing THEN note ELSE <<>>]

UpdatedFields(old, rating, note) ==
    [rating |-> rating, note |-> IF note # Missing THEN note ELSE old]

\* MessageFeedbackView.post run to completion on the (rating, note) pairs of
\* a message's feedback rows: created when there is none, updated otherwise.
SubmitOnce(rows, rating, note) ==
    IF rows = {} THEN {CreateDefaults(rating, note)}
    ELSE {UpdatedFields(f.note, rating, note) : f \in rows}

\* The (rating, note) pairs of the feedback rows of message m.
FeedbackFields(fbs, m) ==
    {[rating |-> f.rating, note |-> f.note] : f \in {x \in fbs : x.message = m}}

FeedbackAllowedAny(msg) == TRUE

\* Only AI messages take feedback.
FeedbackAllowed(msg) == msg.role = ROLE_AI

(* ---------------------- CreateFeedbackSerializer ---------------------- *)
\* rating = BooleanField(): required, and a boolean; note = CharField(
\* max_length=1000, allow_blank=True, required=False, allow_null=True): an
\* absent or null note is valid, any other is trimmed and the length limit
\* applies to the trimmed note.
FeedbackValid(rating, note) ==
    /\ rating \in {"true", "false"}
    /\ note = Missing \/ Len(Strip(note)) <= NoteMaxLength

\* auto_now_add: the time of the INSERT, later than that of every row there
\* is (the clock is taken to move between two INSERTs).
Now ==
    IF feedback = {} THEN 1
    ELSE 1 + CHOOSE t \in {f.created_at : f \in feedback} :
                 \A f \in feedback : f.created_at <= t

(* ----------------------- MessageFeedbackView.post --------------------- *)
\* get_object_or_404, the role check and the validation of the payload:
\* validated_data holds the rating and the trimmed note (None when the
\* note is absent or null).
FbBegin(p, m, rating, note) ==
    /\ CanStart(p)
    /\ IF ~MsgExists(m)
       THEN /\ resp' = Response("feedback", "404")
            /\ UNCHANGED req
       ELSE IF ~FeedbackAllowed(TheMessage(m))
       THEN /\ resp' = Response("feedback", "400")
            /\ UNCHANGED req
       ELSE IF ~FeedbackValid(rating, note)
       THEN /\ resp' = Response("feedback", "400")
            /\ UNCHANGED req
       ELSE /\ FeedbackOf(m) = {} => FbIdsFree(1)
            /\ req' = [req EXCEPT ![p] =
                 [Idle EXCEPT !.pc = "fb_get", !.msg = m,
                              !.rating = (rating = "true"),
                              !.note = IF note = Missing THEN Missing
                                       ELSE Strip(note)]]
            /\ resp' = NoResp
    /\ UNCHANGED <<store, nextConvId, nextMsgId, nextFbId, ormOps, plain>>

\* get_or_create's get.
FbGet(p) ==
    /\ req[p].pc = "fb_get"
    /\ LET m == req[p].msg
       IN IF Cardinality(FeedbackOf(m)) > 1
          THEN \* get() raises MultipleObjectsReturned
               /\ req' = [req EXCEPT ![p] = Idle]
               /\ resp' = Response("feedback", "500")
          ELSE IF FeedbackOf(m) # {}
          THEN LET f == CHOOSE x \in FeedbackOf(m) : TRUE
               IN /\ req' = [req EXCEPT ![p].pc = "fb_update",
                                        ![p].fb = f.id, ![p].fbnote = f.note]
                  /\ resp' = NoResp
          ELSE /\ req' = [req EXCEPT ![p].pc = "fb_create"]
               /\ resp' = NoResp
    /\ UNCHANGED <<store, nextConvId, nextMsgId, nextFbId, ormOps, plain>>

\* get_or_create's create: the INSERT, and on an IntegrityError the second
\* get (which raises the IntegrityError again when it finds nothing).
FbCreate(p) ==
    /\ req[p].pc = "fb_create"
    /\ LET m == req[p].msg
       IN IF FeedbackInsertOk(m)
          THEN LET d == CreateDefaults(req[p].rating, req[p].note)
               IN /\ feedback' = feedback \cup
                       {[id |-> nextFbId, message |-> m,
                         rating |-> d.rating, note |-> d.note,
                         created_at |-> Now]}
                  /\ nextFbId' = nextFbId + 1
                  /\ req' = [req EXCEPT ![p] = Idle]
                  /\ resp' = Response("feedback", "201")
          ELSE IF Cardinality(FeedbackOf(m)) = 1
          THEN LET f == CHOOSE x \in FeedbackOf(m) : TRUE
               IN /\ req' = [req EXCEPT ![p].pc = "fb_update",
                                        ![p].fb = f.id, ![p].fbnote = f.note]
                  /\ resp' = NoResp
                  /\ UNCHANGED <<feedback, nextFbId>>
          ELSE /\ req' = [req EXCEPT ![p] = Idle]
               /\ resp' = Response("feedback", "500")
               /\ UNCHANGED <<feedback, nextFbId>>
    /\ UNCHANGED <<conversations, messages, nextConvId, nextMsgId, ormOps, plain>>

\* The update branch: feedback.save() writes the rating and the (possibly
\* unchanged) note of the loaded object; when the row has been deleted
\* meanwhile, save() falls back to an INSERT under the same primary key.
FbUpdate(p) ==
    /\ req[p].pc = "fb_update"
    /\ LET m == req[p].msg
           u == UpdatedFields(req[p].fbnote, req[p].rating, req[p].note)
       IN IF \E f \in feedback : f.id = req[p].fb
          THEN /\ feedback' = {IF f.id = req[p].fb
                                THEN [f EXCEPT !.rating = u.rating,
                                               !.note = u.note]
                                ELSE f : f \in feedback}
               /\ resp' = Response("feedback", "200")
          ELSE IF FeedbackInsertOk(m)
          THEN /\ feedback' = feedback \cup
                    {[id |-> req[p].fb, message |-> m, rating |-> u.rating,
                      note |-> u.note, created_at |-> Now]}
               /\ resp' = Response("feedback", "200")
          ELSE /\ resp' = Response("feedback", "500")
               /\ UNCHANGED feedback
    /\ req' = [req EXCEPT ![p] = Idle]
    /\ UNCHANGED <<conversations, messages, nextConvId, nextMsgId, nextFbId,
                   ormOps, plain>>

(* ------------------ direct model-level operations --------------------- *)
\* Message.objects.create(..., sequence=s): the explicit value is kept.
OrmCreateMessage(c, role, s) ==
    /\ ormOps < cap.orm
    /\ ormOps' = ormOps + 1
    /\ ConvExists(c)
    /\ MsgIdsFree(1)
    /\ IF MessageInsertOk(c, s)
       THEN /\ messages' = messages \cup {NewMessage(c, role, s, ReplyText)}
            /\ nextMsgId' = nextMsgId + 1
            /\ plain' = plain \ {c}
            /\ resp' = Response("orm_create_message", "ok")
       ELSE /\ resp' = Response("orm_create_message", "IntegrityError")
            /\ UNCHANGED <<messages, nextMsgId, plain>>
    /\ UNCHANGED <<conversations, feedback, nextConvId, nextFbId, req>>

\* Feedback.objects.create(message=..., rating=..., note=...).
OrmCreateFeedback(m, rating, note) ==
    /\ ormOps < cap.orm
    /\ ormOps' = ormOps + 1
    /\ MsgExists(m)
    /\ FbIdsFree(1)
    /\ IF FeedbackInsertOk(m)
       THEN /\ feedback' = feedback \cup
                 {[id |-> nextFbId, message |-> m, rating |-> rating,
                   note |-> note, created_at |-> Now]}
            /\ nextFbId' = nextFbId + 1
            /\ resp' = Response("orm_create_feedback", "ok")
       ELSE /\ resp' = Response("orm_create_feedback", "IntegrityError")
            /\ UNCHANGED <<feedback, nextFbId>>
    /\ UNCHANGED <<conversations, messages, nextConvId, nextMsgId, req, plain>>

CascadeNothing(ids) == {}

\* on_delete=CASCADE of Feedback.message: the feedback rows that go with a
\* set of deleted message ids.
CascadeFeedback(ids) == {f \in feedback : f.message \in ids}

\* on_delete=CASCADE of Message.conversation: the message rows that go with
\* a deleted conversation.
CascadeMessages(c) == ConvMessages(c)

\* msg.delete()
OrmDeleteMessage(m) ==
    /\ ormOps < cap.orm
    /\ ormOps' = ormOps + 1
    /\ MsgExists(m)
    /\ messages' = messages \ {TheMessage(m)}
    /\ feedback' = feedback \ CascadeFeedback({m})
    /\ plain' = plain \ {TheMessage(m).conv}
    /\ resp' = Response("orm_delete_message", "ok")
    /\ UNCHANGED <<conversations, nextConvId, nextMsgId, nextFbId, req>>

\* conv.delete()
OrmDeleteConversation(c) ==
    /\ ormOps < cap.orm
    /\ ormOps' = ormOps + 1
    /\ ConvExists(c)
    /\ conversations' = conversations \ {TheConversation(c)}
    /\ messages' = messages \ CascadeMessages(c)
    /\ feedback' = feedback \ CascadeFeedback({ms.id : ms \in CascadeMessages(c)})
    /\ plain' = plain \ {c}
    /\ resp' = Response("orm_delete_conversation", "ok")
    /\ UNCHANGED <<nextConvId, nextMsgId, nextFbId, req>>

(* --------------------------- InsightsView.get ------------------------- *)
\* The whole request while no other request runs.
GetInsightsPruning(q, ok) ==
    /\ req["w1"].pc = "idle"
    /\ LET r == InsRun(InsStart(q), ok, FALSE)
       IN \E above \in AverageSides(r.conversations_with_scores) :
             ins' = IF above THEN InsRun(InsStart(q), ok, TRUE) ELSE r
    /\ feedback' = {f \in feedback : f.note # <<>>}
    /\ UNCHANGED <<conversations, messages, nextConvId, nextMsgId, nextFbId,
                   req, resp, ormOps, plain, cap, pure, lst>>

GetInsights(q, ok) ==
    /\ req["w1"].pc = "idle"
    /\ LET r == InsRun(InsStart(q), ok, FALSE)
       IN \E above \in AverageSides(r.conversations_with_scores) :
             ins' = IF above THEN InsRun(InsStart(q), ok, TRUE) ELSE r
    /\ UNCHANGED <<web, cap, pure, lst>>

\* The request arrives: its parameter is parsed.
InsBegin(q) ==
    /\ ins.pc = "idle"
    /\ ins' = InsStart(q)
    /\ UNCHANGED <<web, cap, pure, lst>>

\* Its next database query.
InsQuery ==
    /\ ins.pc \notin {"idle", "done", "summary"}
    /\ \E above \in BOOLEAN : ins' = InsStep(ins, TRUE, above)
    /\ UNCHANGED <<web, cap, pure, lst>>

\* The summary (the generator answers or fails) and the response.
InsSummary(ok) ==
    /\ ins.pc = "summary"
    /\ ins' = InsStep(ins, ok, FALSE)
    /\ UNCHANGED <<web, cap, pure, lst>>

(* --------------------------- specifications --------------------------- *)
\* The steps a worker takes once it has begun a request.
Continue(p) ==
    \/ PostCountUser(p)
    \/ PostInsertUser(p)
    \/ PostHistory(p)
    \/ \E ok \in BOOLEAN : PostGenerate(p, ok)
    \/ PostInsertAI(p)
    \/ PostCountUsers(p)
    \/ PostSaveTitle(p)
    \/ FbGet(p)
    \/ FbCreate(p)
    \/ FbUpdate(p)

\* The HTTP API, one request at a time.
NextApi ==
    \/ CreateConversation(NoTitle)
    \/ \E c \in ConvIds : GetConversation(c)
    \/ \E c \in ConvIds, text \in Texts : PostBegin("w1", c, text)
    \/ \E m \in MsgIds, r \in {"true", "false"}, n \in PayloadNotes :
          FbBegin("w1", m, r, n)
    \/ \E m \in MsgIds : FbBegin("w1", m, None, Missing)
    \/ Continue("w1")

\* The HTTP API with requests of two workers interleaving between database
\* statements, and feedback rows created directly as fixtures create them.
NextConc ==
    \/ CreateConversation(NoTitle)
    \/ \E p \in Procs, c \in ConvIds, text \in Texts : PostBegin(p, c, text)
    \/ \E p \in Procs, m \in MsgIds, r \in {"true", "false"} :
          FbBegin(p, m, r, Missing)
    \/ \E p \in Procs : Continue(p)
    \/ \E m \in MsgIds : OrmCreateFeedback(m, FALSE, NoNote)

\* One worker's requests interleaving with direct model-level operations.
NextOrm ==
    \/ CreateConversation(NoTitle)
    \/ \E c \in ConvIds, text \in Texts : PostBegin("w1", c, text)
    \/ \E m \in MsgIds : FbBegin("w1", m, "true", Missing)
    \/ Continue("w1")
    \/ \E c \in ConvIds, role \in {ROLE_USER, ROLE_AI}, s \in Seqs :
          OrmCreateMessage(c, role, s)
    \/ \E m \in MsgIds : OrmCreateFeedback(m, FALSE, NoNote)
    \/ \E m \in MsgIds : OrmDeleteMessage(m)
    \/ \E c \in ConvIds : OrmDeleteConversation(c)

\* Calls of extract_feedback_themes on notes put together from the pieces.
NextThemes ==
    \/ \E piece \in Pieces \cup {<<>>} : ThAddNote(piece)
    \/ \E piece \in Pieces : ThExtend(piece)
    \/ \E top_n \in 0..MaxTopN : ThExtract(top_n)

Spec == Init /\ [][NextApi /\ UNCHANGED <<cap, pure, ins, lst>>]_vars

SpecConc == InitConc /\ [][NextConc /\ UNCHANGED <<cap, pure, ins, lst>>]_vars

SpecOrm == InitOrm /\ [][NextOrm /\ UNCHANGED <<cap, pure, ins, lst>>]_vars

SpecThemes == Init /\ [][NextThemes]_vars

\* Message POSTs to one conversation, one at a time.
NextHistory ==
    \/ CreateConversation(NoTitle)
    \/ \E text \in HistTexts : PostBegin("w1", 1, text)
    \/ PostCountUser("w1")
    \/ PostInsertUser("w1")
    \/ PostHistory("w1")
    \/ \E ok \in BOOLEAN : PostGenerate("w1", ok)
    \/ PostInsertAI("w1")
    \/ PostCountUsers("w1")
    \/ PostSaveTitle("w1")

SpecHistory ==
    InitHistory /\ [][NextHistory /\ UNCHANGED <<cap, pure, ins, lst>>]_vars

\* Messages created directly, with sequences that leave gaps, in two
\* conversations, and listings of them; lst holds the listing when the last
\* request was one.
NextList ==
    \/ CreateConversation(NoTitle) /\ lst' = LstIdle
    \/ \E c \in ConvIds, s \in Seqs :
          OrmCreateMessage(c, ROLE_USER, s) /\ lst' = LstIdle
    \/ \E c \in ConvIds,
          sinceParam \in {Missing, <<"1">>, <<"2">>, <<"-", "1">>},
          limitParam \in {Missing, <<"0">>, <<"2">>} :
          GetMessages(c, sinceParam, limitParam)

SpecList == InitList /\ [][NextList /\ UNCHANGED <<cap, pure, ins>>]_vars

\* Message POSTs of two workers to one conversation, interleaving with the
\* listings of a polling client.
NextPoll ==
    \/ CreateConversation(NoTitle) /\ UNCHANGED lst
    \/ \E p \in Procs, text \in Texts : PostBegin(p, 1, text) /\ UNCHANGED lst
    \/ \E p \in Procs : PostCountUser(p) /\ UNCHANGED lst
    \/ \E p \in Procs : PostInsertUser(p) /\ UNCHANGED lst
    \/ \E p \in Procs : PostHistory(p) /\ UNCHANGED lst
    \/ \E p \in Procs, ok \in BOOLEAN : PostGenerate(p, ok) /\ UNCHANGED lst
    \/ \E p \in Procs : PostInsertAI(p) /\ UNCHANGED lst
    \/ \E p \in Procs : PostCountUsers(p) /\ UNCHANGED lst
    \/ \E p \in Procs : PostSaveTitle(p) /\ UNCHANGED lst
    \/ \E limitParam \in {Missing, <<"1">>} : Poll(1, limitParam)

SpecPoll == InitPoll /\ [][NextPoll /\ UNCHANGED <<cap, pure, ins>>]_vars

\* The API one request at a time, with payloads that validation rejects
\* among the others: a text that is absent, blank, only whitespace or 1001
\* characters long, a title of 201 characters, a rating that is absent or
\* no boolean, and a note of 1001 characters.
NextErrors ==
    \/ \E t \in {NoTitle, <<"T">>} : CreateConversation(t)
    \/ \E c \in ConvIds : GetConversation(c)
    \/ \E c \in ConvIds,
          text \in Texts \cup {Missing, <<>>, <<" ", "\n">>,
                               [i \in 1..(TextMaxLength + 1) |-> "x"]} :
          PostBegin("w1", c, text)
    \/ \E c \in ConvIds,
          title \in {Missing, <<" ", "N", " ">>,
                     [i \in 1..(TitleMaxLength + 1) |-> "x"]} :
          PatchTitle(c, title)
    \/ \E m \in MsgIds, r \in {None, "true", "false", "maybe"},
          n \in {Missing, <<" ", "o", "k", "\r", "\n">>,
                 [i \in 1..(NoteMaxLength + 1) |-> "x"]} :
          FbBegin("w1", m, r, n)
    \/ Continue("w1")

SpecErrors ==
    InitErrors /\ [][NextErrors /\ UNCHANGED <<cap, pure, ins, lst>>]_vars

\* Calls of generate_reply in every environment.
NextGemini ==
    \/ \E key \in ApiKeys, import_ok \in BOOLEAN : GmEnv(key, import_ok)
    \/ \E ch \in ReplyChars : GmExtend(ch)
    \/ \E kind \in ClientKinds : GmCall(kind)

SpecGemini == Init /\ [][NextGemini]_vars

\* Calls of parse_int_query_param on every value of the parameter.
NextParse ==
    \/ \E args \in CallSites \cup TestArgs, present \in BOOLEAN :
          PqArgs(args, present)
    \/ \E ch \in ParamChars : PqExtend(ch)
    \/ PqParse

SpecParse == Init /\ [][NextParse]_vars

\* The requests of one worker that change the store.
NextWrites(notes) ==
    \/ CreateConversation(NoTitle)
    \/ \E c \in ConvIds, text \in Texts : PostBegin("w1", c, text)
    \/ \E m \in MsgIds, r \in {"true", "false"}, n \in notes :
          FbBegin("w1", m, r, n)
    \/ Continue("w1")

\* The API one request at a time, insights requests among them; ins holds
\* the report of the last request when that was an insights request.
NextInsights ==
    \/ NextWrites({Missing, <<"s", "l", "o", "w">>}) /\ ins' = InsIdle
    \/ \E q \in SummaryParams, ok \in BOOLEAN :
          (IncludeSummary(q) \/ ok) /\ GetInsights(q, ok)

\* One insights request whose queries interleave with the requests of a
\* worker.
NextInsConc ==
    \/ NextWrites({Missing}) /\ UNCHANGED ins
    \/ \E q \in {Missing, <<"f", "a", "l", "s", "e">>} : InsBegin(q)
    \/ InsQuery
    \/ \E ok \in BOOLEAN : (ins.include_summary \/ ok) /\ InsSummary(ok)

SpecInsights == InitInsights /\ [][NextInsights /\ UNCHANGED <<cap, pure, lst>>]_vars

\* The same without notes and parameter spellings, over one longer
\* conversation.
NextInsOne ==
    \/ NextWrites({Missing}) /\ ins' = InsIdle
    \/ \E q \in {Missing, <<"f", "a", "l", "s", "e">>}, ok \in BOOLEAN :
          (IncludeSummary(q) \/ ok) /\ GetInsights(q, ok)

SpecInsOne == InitInsOne /\ [][NextInsOne /\ UNCHANGED <<cap, pure, lst>>]_vars

SpecInsConc == InitInsConc /\ [][NextInsConc /\ UNCHANGED <<cap, pure, lst>>]_vars

(* ------------------------------- claims ------------------------------- *)
\* The AI-role messages of conversation c and the feedback rows attached to
\* them, read off the store.
AiIdsIn(c) == {ms.id : ms \in {x \in messages : x.conv = c /\ x.role = "ai"}}

FeedbackOn(ids) == {f \in feedback : f.message \in ids}

\* C1: calculate_quality_score gives no score exactly when the conversation
\* has no AI-role message or no feedback row on its AI-role messages; in
\* every other case, partial coverage included, it gives a number.
C1_NoScoreExactly ==
    \A cv \in conversations :
        (QualityScore(cv.id) = NoScore)
            <=> (AiIdsIn(cv.id) = {} \/ FeedbackOn(AiIdsIn(cv.id)) = {})

\* One feedback on two AI messages, and the conversation was just served
\* with a score.
C1_Witness ==
    /\ resp.op = "get_conversation"
    /\ resp.score >= 0
    /\ \E cv \in conversations :
          /\ Cardinality(AiIdsIn(cv.id)) = 2
          /\ Cardinality(FeedbackOn(AiIdsIn(cv.id))) = 1
          /\ resp.score = QualityScore(cv.id)

\* C2: in every reachable store the feedback counted for a conversation
\* never exceeds its AI messages, the positive count never exceeds the
\* feedback count, and every defined score lies in [0, 100].
C2_ScoreInRange ==
    \A cv \in conversations :
        LET fbs == FeedbackOn(AiIdsIn(cv.id))
        IN /\ FeedbackCount(cv.id) <= Cardinality(AiIdsIn(cv.id))
           /\ PositiveCount(cv.id) <= FeedbackCount(cv.id)
           /\ QualityScore(cv.id) # NoScore =>
                 (0 <= QualityScore(cv.id) /\ QualityScore(cv.id) <= 10000)

\* A conversation at the top of the range while a user message of it also
\* carries a (directly created) feedback row.
C2_Witness ==
    \E cv \in conversations :
        /\ QualityScore(cv.id) = 10000
        /\ \E ms \in messages, f \in feedback :
              ms.conv = cv.id /\ ms.role = "user" /\ f.message = ms.id

\* C3: with t >= 1 AI messages, f >= 1 feedback rows on them and p of those
\* positive, the score is (p/f * 0.7 + f/t * 0.3) * 100 rounded to two
\* decimals (here: within half a hundredth of the exact value); all-negative
\* feedback on every AI message gives 30.0, all-positive gives 100.0.
C3_ScoreFormula ==
    \A cv \in conversations :
        LET t == Cardinality(AiIdsIn(cv.id))
            fbs == FeedbackOn(AiIdsIn(cv.id))
            f == Cardinality(fbs)
            p == Cardinality({x \in fbs : x.rating})
            sc == QualityScore(cv.id)
            exact == 100 * (70 * p * t + 30 * f * f)  \* times f * t
            diff == sc * f * t - exact
        IN (t >= 1 /\ f >= 1) =>
              /\ 2 * diff <= f * t
              /\ -2 * diff <= f * t
              /\ (f = t /\ p = 0) => sc = 3000
              /\ (f = t /\ p = f) => sc = 10000

\* Two AI messages, both with negative feedback, served as 30.0.
C3_Witness ==
    /\ resp.op = "get_conversation"
    /\ resp.score = 3000
    /\ \E cv \in conversations :
          /\ Cardinality(AiIdsIn(cv.id)) = 2
          /\ Cardinality(FeedbackOn(AiIdsIn(cv.id))) = 2
          /\ \A f \in FeedbackOn(AiIdsIn(cv.id)) : ~f.rating

\* C4: every stored feedback row is attached to an AI-role message; a
\* submission on a user-role message is not taken up (no worker ever holds
\* one) and a submission answered with 400 leaves the feedback rows as
\* they were.
C4_FeedbackOnlyOnAi ==
    [][ /\ \A f \in feedback' :
              \E ms \in messages' : ms.id = f.message /\ ms.role = "ai"
        /\ \A p \in Procs :
              req'[p].pc \in {"fb_get", "fb_create", "fb_update"} =>
                 \E ms \in messages' : ms.id = req'[p].msg /\ ms.role = "ai"
        /\ (resp'.op = "feedback" /\ resp'.status = "400") =>
              feedback' = feedback ]_vars

\* A submission was just rejected with 400 while feedback exists.
C4_Witness ==
    /\ resp.op = "feedback"
    /\ resp.status = "400"
    /\ feedback # {}
    /\ \E ms \in messages : ms.role = "user"

\* C5: no message ever has two feedback rows, however submissions for it
\* interleave; a submission answered 201 created the message's only row, one
\* answered 200 updated the row that was there (same id), and a direct
\* second creation fails with an integrity error and stores nothing.
C5_OneFeedbackPerMessage ==
    [][ /\ \A f, g \in feedback' : f.message = g.message => f = g
        /\ \A p \in Procs :
              ( /\ req[p].pc \in {"fb_create", "fb_update"}
                /\ req'[p].pc = "idle"
                /\ resp'.status \in {"200", "201"} ) =>
                 LET before == {f \in feedback : f.message = req[p].msg}
                     after == {f \in feedback' : f.message = req[p].msg}
                 IN /\ Cardinality(after) = 1
                    /\ (resp'.status = "201") <=> (before = {})
                    /\ (resp'.status = "200") =>
                          {f.id : f \in after} = {f.id : f \in before}
        /\ (resp'.op = "orm_create_feedback" /\ resp'.status = "IntegrityError")
              => feedback' = feedback
        /\ (resp'.op = "orm_create_feedback" /\ resp'.status = "ok") =>
              \E f \in feedback' \ feedback :
                 /\ feedback' = feedback \cup {f}
                 /\ {x \in feedback : x.message = f.message} = {} ]_vars

\* A submission has just created the feedback of a message (201) while
\* another worker, which found none, is about to create it as well.
C5_Witness ==
    /\ resp.op = "feedback"
    /\ resp.status = "201"
    /\ \E q \in Procs :
          /\ req[q].pc = "fb_create"
          /\ \E f \in feedback : f.message = req[q].msg

\* C6: a completed submission leaves the message's feedback with the rating
\* and note the payload determines, and submitting the same payload once
\* more would leave exactly that rating and note.
C6_SubmitIdempotent ==
    [][ \A p \in Procs :
           ( /\ req[p].pc \in {"fb_create", "fb_update"}
             /\ req'[p].pc = "idle"
             /\ resp'.status \in {"200", "201"} ) =>
              LET once == FeedbackFields(feedback', req[p].msg)
              IN /\ once = SubmitOnce(FeedbackFields(feedback, req[p].msg),
                                      req[p].rating, req[p].note)
                 /\ SubmitOnce(once, req[p].rating, req[p].note) = once ]_vars

\* An update (200) has just left a negative rating with a note.
C6_Witness ==
    /\ resp.op = "feedback"
    /\ resp.status = "200"
    /\ \E f \in feedback : f.note = <<"s", "l", "o", "w">> /\ ~f.rating

\* C7 as stated: every newly created message, whether its sequence is
\* auto-assigned or supplied, and also after deletions, gets a sequence
\* strictly greater than that of every message already in its conversation.
C7_Original ==
    [][ \A ms \in messages' \ messages :
           \A old \in messages : old.conv = ms.conv => ms.seq > old.seq ]_vars

\* C7, amended: in a conversation all of whose messages were created with an
\* auto-assigned sequence and from which none was deleted, a newly created
\* message gets 1 + the number of messages already there, which is strictly
\* greater than the sequence of each of them.
C7_AutoSequenceIncreases ==
    [][ \A ms \in messages' \ messages :
           ms.conv \in plain' =>
              /\ ms.seq = 1 + Cardinality({old \in messages : old.conv = ms.conv})
              /\ \A old \in messages : old.conv = ms.conv => ms.seq > old.seq
      ]_vars

\* Such a conversation holding two messages, after a direct model-level
\* operation elsewhere.
C7_Witness ==
    /\ ormOps >= 1
    /\ \E c \in plain :
          /\ \E ms \in messages : ms.conv = c /\ ms.seq = 1
          /\ \E ms \in messages : ms.conv = c /\ ms.seq = 2

\* C8: however the message creations of concurrent requests interleave, no
\* two stored messages of a conversation share a sequence; a creation whose
\* (conversation, sequence) pair is taken fails and stores nothing.
C8_UniqueSequence ==
    [][ /\ \A a, b \in messages' :
              (a.conv = b.conv /\ a.seq = b.seq) => a = b
        /\ \A p \in Procs :
              ( /\ req[p].pc \in {"post_user", "post_ai"}
                /\ req'[p] # req[p]
                /\ \E ms \in messages :
                      ms.conv = req[p].conv /\ ms.seq = req[p].seq ) =>
                 /\ resp'.op = "post_message"
                 /\ resp'.status = "500"
                 /\ messages' = messages ]_vars

\* A message creation has just failed on a taken sequence.
C8_Witness ==
    /\ resp.op = "post_message"
    /\ resp.status = "500"
    /\ messages # {}

\* C9: with auto-assigned sequences and no deletion, the k-th message
\* created in a conversation has sequence k, whatever is created in other
\* conversations (ids grow in creation order).
C9_KthMessageGetsK ==
    \A ms \in messages :
        ms.seq = Cardinality({o \in messages : o.conv = ms.conv /\ o.id <= ms.id})

\* Creations of two conversations alternate.
C9_Witness ==
    \E a, b, c \in messages :
        /\ a.conv = c.conv
        /\ a.conv # b.conv
        /\ a.id < b.id
        /\ b.id < c.id
        /\ b.seq = 1
        /\ c.seq = 3

\* C10: every message belongs to an existing conversation and every
\* feedback row to an existing message: deletions cascade.
C10_NoOrphans ==
    /\ \A ms \in messages : \E cv \in conversations : cv.id = ms.conv
    /\ \A f \in feedback : \E ms \in messages : ms.id = f.message

\* A conversation whose messages carried feedback has just been deleted.
C10_Witness ==
    /\ resp.op = "orm_delete_conversation"
    /\ ormOps = 1
    /\ nextMsgId > 1
    /\ nextFbId > 1

\* What a report is built from, read off the store.
StoreCounts ==
    [total_conversations |-> Cardinality(conversations),
     total_messages |-> Cardinality(messages),
     total_user_messages |-> Cardinality({ms \in messages : ms.role = "user"}),
     total_ai_messages |-> Cardinality({ms \in messages : ms.role = "ai"}),
     total_feedback |-> Cardinality(feedback),
     positive_feedback |-> Cardinality({f \in feedback : f.rating}),
     negative_feedback |-> Cardinality({f \in feedback : ~f.rating})]

ReportCounts ==
    [total_conversations |-> ins.total_conversations,
     total_messages |-> ins.total_messages,
     total_user_messages |-> ins.total_user_messages,
     total_ai_messages |-> ins.total_ai_messages,
     total_feedback |-> ins.total_feedback,
     positive_feedback |-> ins.positive_feedback,
     negative_feedback |-> ins.negative_feedback]

\* The generator was called and failed.
GeneratorFailed == ins.pc = "done" /\ ins.llm_calls = 1 /\ ins.summary # SummaryText

\* C11: when the generator fails, the request still answers (nothing is
\* raised) with summary null and with the usage, feedback, themes and
\* quality scores of the store, the same as when the generator succeeds.
C11_SummaryFailureKeepsReport ==
    GeneratorFailed =>
        /\ ~ins.raised
        /\ ins.summary = None
        /\ ReportCounts = StoreCounts
        /\ Len(ins.conversations_with_scores) = Cardinality(conversations)
        /\ {ins.conversations_with_scores[i] :
                i \in DOMAIN ins.conversations_with_scores} =
              {[id |-> cv.id, quality_score |-> QualityScore(cv.id),
                total_messages |-> Cardinality(ConvMessages(cv.id)),
                feedback_count |-> Cardinality(FeedbackOn(AiIdsIn(cv.id)))] :
                   cv \in conversations}
        /\ ins.conversations = ins.conversations_with_scores
        /\ \E above \in BOOLEAN :
              [ins EXCEPT !.summary = SummaryText]
                  = InsRun(InsStart(ins.param), TRUE, above)

\* A failed summary over a store with feedback, a theme and a score.
C11_Witness ==
    /\ GeneratorFailed
    /\ ins.total_feedback >= 1
    /\ ins.top_themes # <<>>
    /\ ins.average # NoScore

\* C12: a request with include_summary=false never calls the generator and
\* answers with summary null.
C12_NoSummaryNoGenerator ==
    (ins.pc = "done" /\ ins.param \in {<<"f", "a", "l", "s", "e">>,
                                       <<"F", "a", "l", "s", "E">>}) =>
        /\ ins.llm_calls = 0
        /\ ins.summary = None

\* Such a request on a store with messages and feedback.
C12_Witness ==
    /\ ins.pc = "done"
    /\ ins.param = <<"F", "a", "l", "s", "E">>
    /\ ins.llm_calls = 0
    /\ ins.total_messages >= 2
    /\ ins.total_feedback >= 1

\* C13: on an empty store the report has every count 0, both rates 0, no
\* themes, four empty buckets and a null average, and nothing is raised.
C13_EmptyStoreReport ==
    (ins.pc = "done" /\ conversations = {} /\ messages = {} /\ feedback = {}) =>
        /\ ~ins.raised
        /\ \A k \in DOMAIN ReportCounts : ReportCounts[k] = 0
        /\ ins.satisfaction_rate = 0
        /\ ins.feedback_rate = 0
        /\ ins.top_themes = <<>>
        /\ \A b \in {"excellent", "good", "fair", "poor"} : ins.distribution[b] = 0
        /\ ins.average = NoScore
        /\ ins.conversations_with_scores = <<>>
        /\ ins.conversations = <<>>

\* A report on the empty store, with the summary asked for.
C13_Witness ==
    /\ ins.pc = "done"
    /\ conversations = {} /\ messages = {} /\ feedback = {}
    /\ ins.llm_calls = 1

\* rate is num / den * 100 rounded to two decimals (in hundredths: within
\* half a hundredth of the exact value), or 0 when den is 0.
IsRate(rate, num, den) ==
    IF den = 0 THEN rate = 0
    ELSE /\ 2 * (rate * den - 10000 * num) <= den
         /\ 2 * (10000 * num - rate * den) <= den

\* C14: satisfaction_rate is positive_feedback / total_feedback * 100 and
\* feedback_rate is total_feedback / total_ai_messages * 100, rounded to two
\* decimals, 0 on a zero denominator, and both lie in [0, 100].
C14_Rates ==
    ins.pc = "done" =>
        /\ IsRate(ins.satisfaction_rate, ins.positive_feedback, ins.total_feedback)
        /\ IsRate(ins.feedback_rate, ins.total_feedback, ins.total_ai_messages)
        /\ 0 <= ins.satisfaction_rate /\ ins.satisfaction_rate <= 10000
        /\ 0 <= ins.feedback_rate /\ ins.feedback_rate <= 10000

\* Two positive out of three feedback on three AI messages: 66.67 and 100.0.
C14_Witness ==
    /\ ins.pc = "done"
    /\ ins.positive_feedback = 2
    /\ ins.total_feedback = 3
    /\ ins.total_ai_messages = 3
    /\ ins.satisfaction_rate = 6667
    /\ ins.feedback_rate = 10000

\* The bucket of the claim a score (in hundredths) falls in.
InBucket(b, score) ==
    CASE b = "excellent" -> score >= 8000
      [] b = "good" -> 6000 <= score /\ score < 8000
      [] b = "fair" -> 4000 <= score /\ score < 6000
      [] b = "poor" -> score < 4000

\* C15: each bucket counts the conversations whose defined score falls in
\* it, every defined score falls in exactly one bucket, undefined scores in
\* none, and the four counts add up to the number of defined scores.
C15_BucketsPartition ==
    ins.pc = "done" =>
        LET buckets == {"excellent", "good", "fair", "poor"}
            defined == {ins.conversations_with_scores[i] :
                           i \in {j \in DOMAIN ins.conversations_with_scores :
                                      ins.conversations_with_scores[j].quality_score
                                          # NoScore}}
        IN /\ \A b \in buckets :
                 ins.distribution[b] =
                     Cardinality({e \in defined : InBucket(b, e.quality_score)})
           /\ \A e \in defined :
                 Cardinality({b \in buckets : InBucket(b, e.quality_score)}) = 1
           /\ ins.distribution.excellent + ins.distribution.good
                 + ins.distribution.fair + ins.distribution.poor
                 = Cardinality(defined)

\* A report over a conversation without a score and one with a score in the
\* fair or the poor bucket.
C15_Witness ==
    /\ ins.pc = "done"
    /\ \E i \in DOMAIN ins.conversations_with_scores :
          ins.conversations_with_scores[i].quality_score = NoScore
    /\ ins.distribution.excellent = 0
    /\ ins.distribution.poor = 1

\* C16: the counts of one report are mutually consistent even when other
\* requests interleave with its construction.
C16_Original ==
    ins.pc = "done" =>
        /\ ins.positive_feedback + ins.negative_feedback = ins.total_feedback
        /\ ins.total_user_messages + ins.total_ai_messages = ins.total_messages
        /\ ins.satisfaction_rate <= 10000

\* The words counted by a call, in the order the notes present them.
RECURSIVE CountedWords(_)
CountedWords(notes) ==
    IF notes = <<>> THEN <<>>
    ELSE NoteWords(Head(notes)) \o CountedWords(Tail(notes))

Occurrences(ws, w) == Cardinality({i \in 1..Len(ws) : ws[i] = w})

FirstSeen(ws, w) == CHOOSE i \in 1..Len(ws) : ws[i] = w /\ \A j \in 1..(i - 1) : ws[j] # w

\* The tokens of every note of the call.
NoteTokens == {FindAll(Lower(th.notes[i]), 1) : i \in 1..Len(th.notes)}

\* C17: extract_feedback_themes never returns a stop word or a word of at
\* most three characters.
C17_NoStopOrShortWords ==
    th.pc = "done" =>
        \A i \in 1..Len(th.themes) :
            /\ th.themes[i].word \notin STOP_WORDS
            /\ Len(th.themes[i].word) > 3

\* Notes holding a stop word and a short word next to a word that is kept.
C17_Witness ==
    /\ th.pc = "done"
    /\ th.themes # <<>>
    /\ \E ts \in NoteTokens : \E i \in 1..Len(ts) : ts[i] \in STOP_WORDS
    /\ \E ts \in NoteTokens : \E i \in 1..Len(ts) : Len(ts[i]) <= 3

\* The maximal runs of the letters a-z of s from position i on, whatever
\* stands next to them.
RECURSIVE LetterRuns(_, _)
LetterRuns(s, i) ==
    IF i > Len(s) THEN <<>>
    ELSE IF IsLetter(s[i])
         THEN <<SubSeq(s, i, RunEnd(s, i))>> \o LetterRuns(s, RunEnd(s, i) + 1)
         ELSE LetterRuns(s, i + 1)

\* C18: the candidate words of a note are the maximal runs of a-z of its
\* lower-cased text, every other character (digits and underscores too)
\* being a separator.
C18_Original ==
    th.pc = "done" =>
        \A i \in 1..Len(th.notes) :
            FindAll(Lower(th.notes[i]), 1) = LetterRuns(Lower(th.notes[i]), 1)

\* C19: the result has at most top_n entries, each a counted word with its
\* number of occurrences over all notes, in descending order of count and,
\* for equal counts, in first-seen order; no word left out ranks before a
\* word returned, and words are left out only when top_n is reached.
C19_TopNMostCommon ==
    th.pc = "done" =>
        LET ws == CountedWords(th.notes)
            t == th.themes
            Before(v, w) ==
                \/ Occurrences(ws, v) > Occurrences(ws, w)
                \/ /\ Occurrences(ws, v) = Occurrences(ws, w)
                   /\ FirstSeen(ws, v) < FirstSeen(ws, w)
        IN /\ Len(t) <= th.top_n
           /\ \A i \in 1..Len(t) :
                 /\ \E k \in 1..Len(ws) : ws[k] = t[i].word
                 /\ t[i].count = Occurrences(ws, t[i].word)
           /\ \A i, j \in 1..Len(t) : i < j => Before(t[i].word, t[j].word)
           /\ \A k \in 1..Len(ws) :
                 (\A i \in 1..Len(t) : t[i].word # ws[k]) =>
                     /\ Len(t) = th.top_n
                     /\ \A i \in 1..Len(t) : Before(t[i].word, ws[k])
           /\ (ws = <<>> => t = <<>>)

\* A call with top_n = 1 on notes whose first word is not the most frequent
\* one: the result is reordered and cut.
C19_Witness ==
    /\ th.pc = "done"
    /\ th.top_n = 1
    /\ Len(th.themes) = 1
    /\ th.themes[1].count = 2
    /\ CountedWords(th.notes)[1] # th.themes[1].word

ToUpper(ch) ==
    IF IsLetter(ch) THEN UpperCase[CHOOSE i \in 1..26 : LowerCase[i] = ch] ELSE ch

\* The notes with every letter in upper case, and with the case of every
\* letter swapped.
UpperNotes(notes) ==
    [i \in 1..Len(notes) |-> [k \in 1..Len(notes[i]) |-> ToUpper(notes[i][k])]]

SwapNotes(notes) ==
    [i \in 1..Len(notes) |->
        [k \in 1..Len(notes[i]) |->
            IF IsUpper(notes[i][k]) THEN ToLower(notes[i][k])
            ELSE ToUpper(notes[i][k])]]

\* C20: the result's words are lower case, no word occurs in two entries,
\* and changing the letter case of the notes does not change the result.
C20_CaseInsensitive ==
    th.pc = "done" =>
        /\ \A i \in 1..Len(th.themes) :
              \A k \in 1..Len(th.themes[i].word) : IsLetter(th.themes[i].word[k])
        /\ \A i, j \in 1..Len(th.themes) :
              th.themes[i].word = th.themes[j].word => i = j
        /\ extract_feedback_themes(UpperNotes(th.notes), th.top_n) = th.themes
        /\ extract_feedback_themes(SwapNotes(th.notes), th.top_n) = th.themes

\* Two case variants of one word counted as one entry.
C20_Witness ==
    /\ th.pc = "done"
    /\ \E i \in 1..Len(th.notes) :
          th.notes[i] # <<>> /\ IsUpper(th.notes[i][1])
    /\ \E i \in 1..Len(th.notes) :
          th.notes[i] # <<>> /\ IsLetter(th.notes[i][1])
    /\ \E i \in 1..Len(th.themes) : th.themes[i].count = 2

\* C21: when the generator fails during a message POST the response is 502,
\* the user message created by that POST stays in the store, no AI message
\* is created (the user message stays the last of its conversation), and the
\* title is the one the conversation had when the request began.
C21_GeneratorFailureKeepsUserMessage ==
    [][\A p \in Procs :
         (req[p].pc = "post_gen" /\ req'[p].pc = "idle") =>
            /\ resp' = Response("post_message", "502")
            /\ store' = store
            /\ \E ms \in messages' :
                  /\ ms.id = req[p].msg
                  /\ ms.conv = req[p].conv
                  /\ ms.role = ROLE_USER
                  /\ ms.text = req[p].text
                  /\ \A o \in messages' : o.conv = ms.conv => o.seq <= ms.seq
            /\ \E cv \in conversations' :
                  cv.id = req[p].conv /\ cv.title = req[p].title]_vars

C21_Witness ==
    /\ resp = Response("post_message", "502")
    /\ \E cv \in conversations :
          /\ cv.title = AutoTitle(<<"h", "i">>)
          /\ AiMessages(cv.id) # {}
          /\ \E ms \in ConvMessages(cv.id) :
                /\ ms.role = ROLE_USER
                /\ \A o \in ConvMessages(cv.id) : o.seq <= ms.seq

\* C22: generate_reply has exactly two outcomes.  It returns a non-empty,
\* whitespace-stripped text exactly when the key is set, the client imports,
\* the call returns and the response text is not blank; in every other case
\* it raises GeminiServiceError and nothing else; without a key the client
\* is never called.
C22_GenerateReplyOutcomes ==
    gm.pc = "done" =>
      LET r == gm.result
          keyed == gm.key # None /\ gm.key # ""
          good == /\ keyed
                  /\ gm.import_ok
                  /\ gm.kind = "text"
                  /\ \E i \in 1..Len(gm.text) : ~IsSpace(gm.text[i])
      IN /\ r.kind \in {"return", "raise"}
         /\ (r.kind = "return") = good
         /\ r.kind = "return" =>
               /\ r.text # <<>>
               /\ ~IsSpace(r.text[1])
               /\ ~IsSpace(r.text[Len(r.text)])
               /\ \E a, b \in 0..Len(gm.text) :
                     /\ a + Len(r.text) + b = Len(gm.text)
                     /\ r.text = SubSeq(gm.text, a + 1, a + Len(r.text))
                     /\ \A i \in 1..Len(gm.text) :
                           (i <= a \/ i > a + Len(r.text)) => IsSpace(gm.text[i])
         /\ r.kind = "raise" => r.error = "GeminiServiceError"
         /\ ~keyed => r.calls = 0

C22_Witness ==
    /\ gm.pc = "done"
    /\ gm.key = "k"
    /\ gm.import_ok
    /\ gm.kind = "text"
    /\ gm.text = <<" ", "\n">>
    /\ gm.result.kind = "raise"
    /\ gm.result.calls = 1

InRange(value, args) ==
    /\ args.has_min => value >= args.min
    /\ args.has_max => value <= args.max

\* C23: parse_int_query_param returns the supplied default when the
\* parameter is missing or not an integer, and otherwise the parsed value
\* clamped to at least min_val and at most max_val; the conversation-list
\* limit is in [1, 100], the offset and since >= 0 and the message-list
\* limit in [1, 200].  Checked for the arguments of the call sites and of
\* the tests, whose default lies within the bounds.
C23_DefaultOrClamped ==
    pq.pc = "done" =>
      /\ pq.result = IF pq.raw = Missing \/ ~ParseInt(pq.raw).ok
                     THEN pq.args.default
                     ELSE Clamp(ParseInt(pq.raw).value, pq.args)
      /\ pq.raw # Missing /\ ParseInt(pq.raw).ok =>
            /\ InRange(pq.result, pq.args)
            /\ InRange(ParseInt(pq.raw).value, pq.args) =>
                  pq.result = ParseInt(pq.raw).value
            /\ pq.args.has_min /\ ParseInt(pq.raw).value < pq.args.min =>
                  pq.result = pq.args.min
            /\ pq.args.has_max /\ ParseInt(pq.raw).value > pq.args.max =>
                  pq.result = pq.args.max
      /\ pq.args \in CallSites => InRange(pq.result, pq.args)

C23_Witness ==
    /\ pq.pc = "done"
    /\ pq.args = [default |-> 50, has_min |-> TRUE, min |-> 1,
                  has_max |-> TRUE, max |-> 200]
    /\ pq.raw = <<"5", "0", "1">>
    /\ pq.result = 200

\* C24: building the insights report is read-only: whatever the store holds,
\* with or without the summary and whether the generator succeeds or fails,
\* the conversations, messages and feedback (rows and fields) are after the
\* request what they were before it.
C24_InsightsReadOnly ==
    [][ins'.pc = "done" =>
         /\ conversations' = conversations
         /\ messages' = messages
         /\ feedback' = feedback]_vars

C24_Witness ==
    /\ ins.pc = "done"
    /\ ins.include_summary
    /\ ins.llm_calls = 1
    /\ ins.summary = None
    /\ ins.total_feedback = 2
    /\ Cardinality(feedback) = 2
    /\ \E f \in feedback : f.note = <<>>
    /\ \E f \in feedback : f.note = <<"s", "l", "o", "w">>

\* The text of the conversation's first user message.
FirstUserText(c) ==
    LET users == {ms \in ConvMessages(c) : ms.role = ROLE_USER}
    IN (CHOOSE ms \in users : \A o \in users : ms.seq <= o.seq).text

\* C25: conversations are created without a title and never patched; a
\* conversation that holds an AI reply has a non-null title, the one derived
\* from the text of its first user message (first 50 characters, plus "..."
\* when the text is longer), also when earlier POSTs to it failed with 502
\* (stated for the store between requests).
C25_Original ==
    (\A p \in Procs : req[p].pc = "idle") =>
        \A cv \in conversations :
            AiMessages(cv.id) # {} =>
                /\ cv.title # NoTitle
                /\ cv.title = AutoTitle(FirstUserText(cv.id))

\* h lists, lowest sequence first, the Len(h) messages of highest sequence
\* among ms.
IsTail(h, ms) ==
    \A i \in 1..Len(h) :
        \E m \in ms :
            /\ Cardinality({o \in ms : o.seq > m.seq}) = Len(h) - i
            /\ h[i] = [role |-> m.role, text |-> m.text]

\* C26: a successful message POST appends exactly two messages to the
\* conversation: first the user message with the trimmed text, then the AI
\* message with the reply, of greater sequence.  The user message is in the
\* store when the generator is called, and the history handed to it is the
\* at most 10 messages of highest sequence, lowest first, the last of them
\* that user message.
C26_PostAppendsUserThenAi ==
    [][LET c == req["w1"].conv
           before == ConvMessages(c)
           after == {ms \in messages' : ms.conv = c}
       IN /\ (req["w1"].pc = "post_user" /\ req'["w1"].pc = "post_history") =>
               \E u \in after :
                   /\ after = before \cup {u}
                   /\ u \notin before
                   /\ u.id = req'["w1"].msg
                   /\ u.role = ROLE_USER
                   /\ u.text = req["w1"].text
                   /\ u.text \in {<<"h", "i">>, <<"y", "o">>}
          /\ req["w1"].pc \in {"post_history", "post_gen"} =>
               /\ messages' = messages
               /\ \E u \in before : u.id = req["w1"].msg
               /\ req'["w1"].pc \in {"post_gen", "post_ai"} =>
                    LET h == req'["w1"].history
                    IN /\ Len(h) = IF Cardinality(before) < 10
                                   THEN Cardinality(before) ELSE 10
                       /\ IsTail(h, before)
                       /\ h[Len(h)] = [role |-> ROLE_USER,
                                       text |-> req["w1"].text]
                       /\ \A o \in before : o.seq <= TheMessage(req["w1"].msg).seq
          /\ (req["w1"].pc = "post_ai"
                /\ (resp' = Response("post_message", "201")
                      \/ req'["w1"].pc = "post_users")) =>
               \E a \in after :
                   /\ after = before \cup {a}
                   /\ a \notin before
                   /\ a.role = ROLE_AI
                   /\ a.text = ReplyText
                   /\ a.seq > TheMessage(req["w1"].msg).seq
                   /\ \A o \in before : o.seq <= TheMessage(req["w1"].msg).seq
          /\ req["w1"].pc \in {"post_users", "post_title"} => messages' = messages
          /\ resp' = Response("post_message", "201") =>
               req["w1"].pc \in {"post_ai", "post_users", "post_title"}
      ]_vars

C26_Witness ==
    /\ resp = Response("post_message", "201")
    /\ Cardinality(ConvMessages(1)) = 12
    /\ \E a, u \in ConvMessages(1) :
          /\ a.seq = 12 /\ a.role = ROLE_AI
          /\ u.seq = 11 /\ u.role = ROLE_USER /\ u.text = <<"y", "o">>
    /\ \E ms \in ConvMessages(1) : ms.seq = 1 /\ ms.text = <<"h", "i">>

\* C27: a listing with since and limit returns only messages of that
\* conversation whose sequence is greater than since, in ascending sequence
\* order, at most limit of them and the lowest first; lastSeq is the
\* sequence of the last message returned, or since when none is returned,
\* hence never below since.
C27_ListingSinceLimit ==
    (lst.pc = "done" /\ lst.status = "200") =>
      LET r == lst.results
          n == Len(r)
          ms == ConvMessages(lst.conv)
      IN /\ \A i \in 1..n : r[i] \in ms /\ r[i].seq > lst.since
         /\ \A i, j \in 1..n : i < j => r[i].seq < r[j].seq
         /\ n <= lst.limit
         /\ \A m \in ms :
               (m.seq > lst.since /\ \A i \in 1..n : r[i] # m) =>
                  /\ n = lst.limit
                  /\ m.seq > r[n].seq
         /\ lst.lastSeq = IF n > 0 THEN r[n].seq ELSE lst.since
         /\ lst.lastSeq >= lst.since

C27_Witness ==
    /\ lst.pc = "done"
    /\ lst.status = "200"
    /\ lst.since = 1
    /\ lst.limit = 1
    /\ Len(lst.results) = 1
    /\ lst.lastSeq = 2
    /\ \E m \in ConvMessages(lst.conv) : m.seq = 3
    /\ \E m \in ConvMessages(lst.conv) : m.seq = 1

\* C28: with messages created only by message POSTs, a client that lists
\* the conversation with since set to the lastSeq it was last given (0 at
\* first) has received, whatever the interleaving of the POSTs with its
\* listings, each message at most once and in sequence order, and it has
\* received every message whose sequence is at most its lastSeq: none is
\* skipped, and the others are still to come.
C28_PollingComplete ==
    LET got == lst.got
        ms == ConvMessages(1)
    IN /\ \A i \in 1..Len(got) : got[i] \in ms
       /\ \A i, j \in 1..Len(got) : i < j => got[i].seq < got[j].seq
       /\ \A m \in ms :
             (m.seq <= lst.lastSeq) = (\E i \in 1..Len(got) : got[i] = m)

C28_Witness ==
    /\ Len(lst.got) = 4
    /\ lst.lastSeq = 4
    /\ Cardinality(ConvMessages(1)) = 4
    /\ \E a \in ConvMessages(1) : a.seq = 3 /\ a.role = ROLE_AI
    /\ \E u \in ConvMessages(1) : u.seq = 2 /\ u.role = ROLE_USER
    /\ \A p \in Procs : req[p].pc = "idle"

\* C29: a submission for a message that already has feedback overwrites the
\* rating with the submitted one, overwrites the note only when a non-null
\* note is supplied (the empty string clears it) and leaves the note as it
\* was when the note is omitted or null, touching no other row; and no
\* feedback created through the API has a null note.
C29_UpdateKeepsOmittedNote ==
    [][/\ \A p \in Procs :
            (req[p].pc = "fb_update"
              /\ resp' = Response("feedback", "200")) =>
               \E old \in feedback, new \in feedback' :
                   /\ old.id = req[p].fb
                   /\ new.id = old.id
                   /\ new.message = old.message
                   /\ new.rating = req[p].rating
                   /\ new.note = IF req[p].note # Missing THEN req[p].note
                                 ELSE old.note
                   /\ feedback' \ {new} = feedback \ {old}
       /\ \A f \in feedback' : f.note # NoNote]_vars

C29_Witness ==
    /\ resp = Response("feedback", "200")
    /\ \E f, g \in feedback :
          /\ f.note = <<"s", "l", "o", "w">> /\ f.rating = FALSE
          /\ g.note = <<>> /\ g.rating = TRUE

\* C30: a request answered with a client error (400 or 404) leaves the
\* store as it was and starts no handler step that could call the
\* generator.  So no message text is ever stored blank, untrimmed or longer
\* than 1000 characters, and no title longer than 200 characters.
C30_ClientErrorsChangeNothing ==
    [][/\ resp'.status \in {"400", "404"} =>
            /\ conversations' = conversations
            /\ messages' = messages
            /\ feedback' = feedback
            /\ req' = req
            /\ req["w1"].pc = "idle"
       /\ \A ms \in messages' :
            /\ ms.text # <<>>
            /\ ms.text # Missing
            /\ Strip(ms.text) = ms.text
            /\ Len(ms.text) <= TextMaxLength
       /\ \A cv \in conversations' :
            cv.title # NoTitle =>
              /\ cv.title # <<>>
              /\ Len(cv.title) <= TitleMaxLength]_vars

C30_Witness ==
    /\ resp = Response("patch_conversation", "400")
    /\ \E cv \in conversations :
          cv.title = <<"N">> /\ AiMessages(cv.id) # {}
    /\ \E cv \in conversations : cv.title = NoTitle

=============================================================================
